---- MODULE Spec2Model ----
(***************************************************************************)
(* Sort-based shuffle repartitioner (SortShuffleRepartitioner):            *)
(* insert_batch / spill / shuffle_write over the buffered batches, the     *)
(* list of spills, the two mutexes and the memory counters.                *)
(*                                                                         *)
(* usize counters are kept as integers read modulo 2^64 in two's           *)
(* complement: a negative value n stands for the wrapped value 2^64 + n,   *)
(* which is also what `as isize` yields for it.                            *)
(***************************************************************************)
EXTENDS Integers, Sequences, FiniteSets, TLC

\* ---- bounds of the model ------------------------------------------------
NumPartitions == 3      \* num_output_partitions (N) of the operator
BatchSize == 2          \* session batch_size
MaxBatches == 2         \* insert_batch calls of one run
MaxRows == 2            \* rows of one input batch
MaxHash == 3            \* hash values are 0..MaxHash
MaxMem == 1             \* array memory size of one input batch is 0..MaxMem
MaxSpillCalls == 2      \* spill() invocations of one run
HashBits == 3           \* width of the hash field inside the radix key
ConcMaxRows == 1        \* rows of one input batch when operations interleave
ConcMaxHash == 1        \* hash values when operations interleave

Tasks == {"driver", "mm", "mm2"}
NoTask == "none"

VARIABLES
    mode,               \* "seq": one operation at a time; "conc": interleaved;
                        \* "misuse": one at a time, the driver ignores the lifecycle
                        \* "jni": only the host class registry is exercised;
                        \* "live": as "seq" with small inputs, the loops scheduled
    buffered_batches,   \* Mutex<Vec<RecordBatch>> contents
    buffered_mem_size,  \* AtomicUsize
    spills,             \* Mutex<Vec<ShuffleSpill>> contents
    mem_used,           \* metrics.mem_used
    spilled_bytes,      \* metrics.spilled_bytes
    granted,            \* memory manager: bytes it holds granted to this consumer
    bufLock,            \* owner of the buffered_batches mutex
    spillsLock,         \* owner of the spills mutex
    pc,                 \* position of every task
    loc,                \* locals of the operation every task runs
    ret,                \* result of the last operation of every task
    output_data,        \* bytes of the output data file
    output_index,       \* bytes of the output index file
    inserted,           \* batches whose insert_batch returned Ok, in order
    nInserts,           \* insert_batch calls so far
    nSpillCalls,        \* spill() calls so far
    phase,              \* "open" | "finalizing" | "closed" | "dropped"
    failed,             \* an operation has returned an error
    JNI_JAVA_CLASSES,   \* static OnceCell<JavaClasses>: its state or its value
    jni                 \* the threads that call JavaClasses::init and ::get

vars == <<mode, buffered_batches, buffered_mem_size, spills, mem_used,
          spilled_bytes, granted, bufLock, spillsLock, pc, loc, ret,
          output_data, output_index, inserted, nInserts, nSpillCalls, phase, failed,
          JNI_JAVA_CLASSES, jni>>

\* ---- values ---------------------------------------------------------------
\* One byte-level token of a serialized stream: a frame header carrying the
\* row count of its sub-batch, or one row (batch number, position, hash).
Hdr(n) == <<0, n, 0, 0>>
Row(b, i, h) == <<1, b, i, h>>
IsHdr(tok) == tok[1] = 0
RowHash(tok) == tok[4]

Min(a, b) == IF a < b THEN a ELSE b

\* Rust integer division of isize truncates toward zero.
TruncDiv(a, b) == IF a >= 0 THEN a \div b ELSE -((-a) \div b)

RECURSIVE SumSeq(_)
SumSeq(s) == IF s = <<>> THEN 0 ELSE Head(s) + SumSeq(Tail(s))

RECURSIVE Flatten(_)
Flatten(ss) == IF ss = <<>> THEN <<>> ELSE Head(ss) \o Flatten(Tail(ss))

\* Vec::resize(n, v)
Resize(s, n, v) ==
    IF Len(s) >= n THEN SubSeq(s, 1, n)
    ELSE s \o [i \in 1..(n - Len(s)) |-> v]

\* Vec::remove(i), 0-based
RemoveAt(s, i) == SubSeq(s, 1, i) \o SubSeq(s, i + 2, Len(s))

\* ---- external collaborators -----------------------------------------------
\* evaluate_partition_ids: partition_id[i] = hash[i] mod N
evaluate_partition_ids(h) == h % NumPartitions

\* write_one_batch(batch, writer, true): one framed, self-delimiting block
write_one_batch(rows) == <<Hdr(Len(rows))>> \o rows

\* concat_batches(schema, batches, rows)
concat_batches(batches) == Flatten([i \in 1..Len(batches) |-> batches[i].rows])

\* Spill tiers
new_l1(bytes) == [tier |-> "L1", bytes |-> bytes]
offheap_mem_size(sp) == IF sp.tier = "L3" THEN 0 ELSE Len(sp.bytes)
\* outcomes of Spill::to_l2: only an L1 blob is moved, and the move can fail
to_l2_outcomes(sp) ==
    IF sp.tier = "L1" THEN {"Ok", "ResourcesExhausted", "Err"} ELSE {"Ok"}
to_l2(sp) == IF sp.tier = "L1" THEN [sp EXCEPT !.tier = "L2"] ELSE sp
to_l3_outcomes(sp) == {"Ok", "Err"}
to_l3(sp) == [sp EXCEPT !.tier = "L3"]
\* Spill::into_reader: a single-pass reader at position 0 of the bytes
into_reader(sp) == [data |-> sp.bytes, pos |-> 0]
\* reader.take(n) copied to the end: the next n bytes, fewer at end of stream
ReadTake(rd, n) == SubSeq(rd.data, rd.pos + 1, Min(rd.pos + n, Len(rd.data)))
\* mutant: the reader does not keep the bytes it took before as consumed
ReadAdvance_FromStart(rd, n) == [rd EXCEPT !.pos = Min(n, Len(rd.data))]
ReadAdvance(rd, n) == [rd EXCEPT !.pos = Min(rd.pos + n, Len(rd.data))]

\* ---- PI and its radix key -------------------------------------------------
HashRange == 2 ^ HashBits
PI(partition_id, hash, index) ==
    [partition_id |-> partition_id, hash |-> hash, index |-> index]
\* mutant: the partition id is shifted by one bit less than the hash is wide
key_ShortShift(pi) == pi.partition_id * (HashRange \div 2) + pi.hash

\* (partition_id as u64) << 32 | hash as u64, the hash being HashBits wide
key(pi) == pi.partition_id * HashRange + pi.hash

\* voracious_sort: every arrangement of pi_vec that is ordered by key (the
\* sort is not stable: equal keys come out in any order)
RECURSIVE SortedArrangements(_, _)
SortedArrangements(pi_vec, S) ==
    IF S = {} THEN {<<>>}
    ELSE LET least == {i \in S : \A j \in S : key(pi_vec[i]) <= key(pi_vec[j])}
         IN  UNION {{<<pi_vec[i]>> \o rest :
                        rest \in SortedArrangements(pi_vec, S \ {i})} : i \in least}
voracious_sort(pi_vec) == SortedArrangements(pi_vec, DOMAIN pi_vec)

\* ---- spill_buffered_to_l1: the freeze -------------------------------------
\* pi_vec of the concatenated batch, before the sort
BuildPiVec(batch) ==
    [k \in 1..Len(batch) |->
        PI(evaluate_partition_ids(RowHash(batch[k])), RowHash(batch[k]), k - 1)]

\* write_sub_batch!(a..b): take the rows at the window's indices, frame them
write_sub_batch(batch, pi_vec, a, b) ==
    write_one_batch([j \in 1..(b - a) |-> batch[pi_vec[a + j].index + 1]])

\* mutant: `if` for `while`, one offset pushed however many partitions are crossed
PushOffsets_Once(st, partition_id) ==
    IF partition_id > st.cur_partition_id
    THEN [st EXCEPT !.cur_spill_offsets = Append(@, Len(st.cur_spill_frozen)),
                    !.cur_partition_id = @ + 1]
    ELSE st

\* while pi_vec[cur_offset].partition_id > cur_partition_id { push; += 1 }
RECURSIVE PushOffsets(_, _)
PushOffsets(st, partition_id) ==
    IF partition_id > st.cur_partition_id
    THEN PushOffsets([st EXCEPT !.cur_spill_offsets = Append(@, Len(st.cur_spill_frozen)),
                                !.cur_partition_id = @ + 1], partition_id)
    ELSE st

\* mutant: the window is closed on batch_size alone, never on a new partition
WalkStep_NoPartitionCut(batch, pi_vec, cur_offset, st) ==
    IF cur_offset - st.cur_slice_start >= BatchSize
    THEN [st EXCEPT
            !.cur_spill_frozen =
                @ \o write_sub_batch(batch, pi_vec, st.cur_slice_start, cur_offset),
            !.cur_slice_start = cur_offset]
    ELSE st

\* mutant: a window is closed at a new partition only, whatever its size
WalkStep_NoSizeCut(batch, pi_vec, cur_offset, st) ==
    IF pi_vec[cur_offset + 1].partition_id > st.cur_partition_id
    THEN LET st1 == IF st.cur_slice_start < cur_offset
                    THEN [st EXCEPT
                            !.cur_spill_frozen =
                                @ \o write_sub_batch(batch, pi_vec, st.cur_slice_start, cur_offset),
                            !.cur_slice_start = cur_offset]
                    ELSE st
         IN  PushOffsets(st1, pi_vec[cur_offset + 1].partition_id)
    ELSE st

\* body of `for cur_offset in 0..pi_vec.len()`
WalkStep(batch, pi_vec, cur_offset, st) ==
    IF \/ pi_vec[cur_offset + 1].partition_id > st.cur_partition_id
       \/ cur_offset - st.cur_slice_start >= BatchSize
    THEN LET st1 == IF st.cur_slice_start < cur_offset
                    THEN [st EXCEPT
                            !.cur_spill_frozen =
                                @ \o write_sub_batch(batch, pi_vec, st.cur_slice_start, cur_offset),
                            !.cur_slice_start = cur_offset]
                    ELSE st
         IN  PushOffsets(st1, pi_vec[cur_offset + 1].partition_id)
    ELSE st

RECURSIVE Walk(_, _, _, _)
Walk(batch, pi_vec, cur_offset, st) ==
    IF cur_offset >= Len(pi_vec) THEN st
    ELSE Walk(batch, pi_vec, cur_offset + 1, WalkStep(batch, pi_vec, cur_offset, st))

\* mutant: the last window is written even when it is empty
FreezeSpill_AlwaysWrite(batches, pi_vec) ==
    LET batch == concat_batches(batches)
        st0 == [cur_partition_id |-> 0, cur_slice_start |-> 0,
                cur_spill_frozen |-> <<>>, cur_spill_offsets |-> <<0>>]
        st1 == Walk(batch, pi_vec, 0, st0)
        frozen == st1.cur_spill_frozen
                    \o write_sub_batch(batch, pi_vec, st1.cur_slice_start, Len(pi_vec))
    IN  [spill |-> new_l1(frozen),
         offsets |-> Resize(st1.cur_spill_offsets, NumPartitions + 1, Len(frozen))]

\* the ShuffleSpill built from the buffered batches and one outcome of the sort
FreezeSpill(batches, pi_vec) ==
    LET batch == concat_batches(batches)
        st0 == [cur_partition_id |-> 0, cur_slice_start |-> 0,
                cur_spill_frozen |-> <<>>, cur_spill_offsets |-> <<0>>]
        st1 == Walk(batch, pi_vec, 0, st0)
        frozen == IF st1.cur_slice_start < Len(pi_vec)
                  THEN st1.cur_spill_frozen
                        \o write_sub_batch(batch, pi_vec, st1.cur_slice_start, Len(pi_vec))
                  ELSE st1.cur_spill_frozen
    IN  [spill |-> new_l1(frozen),
         offsets |-> Resize(st1.cur_spill_offsets, NumPartitions + 1, Len(frozen))]

\* every ShuffleSpill a freeze of these batches can return
FreezeResults(batches) ==
    {FreezeSpill(batches, pi_vec) :
        pi_vec \in voracious_sort(BuildPiVec(concat_batches(batches)))}

\* ---- SpillCursor and the loser tree ----------------------------------------
finished(c) == c.cur + 1 >= Len(c.offsets)

RECURSIVE skip_empty_partitions(_)
skip_empty_partitions(c) ==
    IF ~finished(c) /\ c.offsets[c.cur + 2] = c.offsets[c.cur + 1]
    THEN skip_empty_partitions([c EXCEPT !.cur = @ + 1])
    ELSE c

NewCursor(sp) ==
    skip_empty_partitions([cur |-> 0, reader |-> into_reader(sp.spill), offsets |-> sp.offsets])

Unfinished(c) == ~finished(c)
\* the leaves handed to LoserTree::new_by
BuildCursors(sps) == SelectSeq([i \in 1..Len(sps) |-> NewCursor(sps[i])], Unfinished)

\* mutant: the larger cur is the lesser cursor
CursorLt_Reversed(c1, c2) ==
    IF finished(c1) THEN FALSE
    ELSE IF finished(c2) THEN TRUE
    ELSE c1.cur > c2.cur

\* mutant: a finished cursor is less than any unfinished one
CursorLt_FinishedFirst(c1, c2) ==
    IF finished(c1) THEN ~finished(c2)
    ELSE IF finished(c2) THEN FALSE
    ELSE c1.cur < c2.cur

\* the comparator given to LoserTree::new_by
CursorLt(c1, c2) ==
    IF finished(c1) THEN FALSE
    ELSE IF finished(c2) THEN TRUE
    ELSE c1.cur < c2.cur

\* LoserTree::peek_mut: a leaf that no other leaf is less than
peek_mut(tree) ==
    {i \in 1..Len(tree) : \A j \in 1..Len(tree) : ~CursorLt(tree[j], tree[i])}

\* mutant: one offset is pushed, however many partitions were passed over
PadOffsets_Once(st, cur) ==
    IF st.cur_partition_id < cur
    THEN [st EXCEPT !.offsets = Append(@, Len(st.out)), !.cur_partition_id = cur]
    ELSE st

\* mutant: the padding stops one partition short of the selected cursor
RECURSIVE PadOffsets_StopsShort(_, _)
PadOffsets_StopsShort(st, cur) ==
    IF st.cur_partition_id + 1 < cur
    THEN PadOffsets_StopsShort([st EXCEPT !.offsets = Append(@, Len(st.out)),
                                          !.cur_partition_id = @ + 1], cur)
    ELSE st

\* while cur_partition_id < min_spill.cur { offsets.push(position); += 1 }
RECURSIVE PadOffsets(_, _)
PadOffsets(st, cur) ==
    IF st.cur_partition_id < cur
    THEN PadOffsets([st EXCEPT !.offsets = Append(@, Len(st.out)),
                               !.cur_partition_id = @ + 1], cur)
    ELSE st

\* mutant: the end offset is taken for the length
CopyLength_EndOffset(min_spill, cur_partition_id) ==
    min_spill.offsets[cur_partition_id + 2]

\* number of bytes copied for the selected cursor
CopyLength(min_spill, cur_partition_id) ==
    LET spill_offset_start == min_spill.offsets[cur_partition_id + 1]
        spill_offset_end == min_spill.offsets[cur_partition_id + 2]
    IN  IF spill_offset_end > spill_offset_start
        THEN spill_offset_end - spill_offset_start ELSE 0

\* mutant: the selected cursor is not moved on after the copy
MergeStep_NoForward(st, m) ==
    LET min_spill == st.tree[m]
        st1 == PadOffsets(st, min_spill.cur)
        n == CopyLength(min_spill, st1.cur_partition_id)
        moved == [min_spill EXCEPT !.reader = ReadAdvance(@, n)]
    IN  [st1 EXCEPT !.out = @ \o ReadTake(min_spill.reader, n),
                    !.tree[m] = skip_empty_partitions(moved)]

\* one iteration of the merge loop with leaf m selected (not finished)
MergeStep(st, m) ==
    LET min_spill == st.tree[m]
        st1 == PadOffsets(st, min_spill.cur)
        n == CopyLength(min_spill, st1.cur_partition_id)
        moved == [min_spill EXCEPT !.reader = ReadAdvance(@, n), !.cur = @ + 1]
    IN  [st1 EXCEPT !.out = @ \o ReadTake(min_spill.reader, n),
                    !.tree[m] = skip_empty_partitions(moved)]

\* (offset as i64).to_le_bytes()
RECURSIVE LeBytes(_, _)
LeBytes(x, n) == IF n = 0 THEN <<>> ELSE <<x % 256>> \o LeBytes(x \div 256, n - 1)
to_le_bytes(offset) == LeBytes(offset, 8)

\* mutant: the offsets are written without the resize to N+1
IndexBytes_NoResize(offsets, position) ==
    Flatten([i \in 1..Len(offsets) |-> to_le_bytes(offsets[i])])

\* the bytes of the index file for the final offsets
IndexBytes(offsets, position) ==
    LET all == Resize(offsets, NumPartitions + 1, position)
    IN  Flatten([i \in 1..Len(all) |-> to_le_bytes(all[i])])

\* ---- the state machine -----------------------------------------------------
\* ---- the class registry (jni_bridge.rs) -----------------------------------
Threads == {"t1", "t2", "t3"}
MaxJniCalls == 2        \* calls of JavaClasses::init and ::get of one thread

Registry == <<JNI_JAVA_CLASSES, jni>>
\* the JavaClasses value that a run of the initializer body builds
JavaClasses(thread, run) == [built_by |-> thread, run |-> run]
NoValue == JavaClasses("none", 0)
\* OnceCell::new(): incomplete; running while one thread runs the initializer
Incomplete == [state |-> "incomplete", value |-> NoValue]
Running == [state |-> "running", value |-> NoValue]
Complete(value) == [state |-> "complete", value |-> value]
Initialized(cell) == cell.state = "complete"
\* what get_unchecked can give on a cell that holds no value
Junk == {JavaClasses("junk", 0), JavaClasses("junk", 1)}

JniInit ==
    /\ JNI_JAVA_CLASSES = Incomplete
    /\ jni = [pc |-> [th \in Threads |-> "idle"],
              calls |-> [th \in Threads |-> 0],
              runs |-> 0,           \* times the initializer body was entered
              returned |-> 0,       \* JavaClasses::init calls that have returned
              got |-> [th \in Threads |-> [value |-> NoValue, late |-> FALSE]]]

EmptyBatch == [id |-> 0, rows |-> <<>>, mem |-> 0]
LocInit == [input |-> EmptyBatch, mem_increase |-> 0, current_used |-> 0,
            freed |-> 0, seen |-> 0, taken |-> <<>>, tree |-> <<>>, offsets |-> <<>>,
            cur_partition_id |-> 0, used |-> 0,
            \* what the operation has done so far, kept for the properties:
            frozen_size |-> 0,  \* buffered_mem_size that the freeze reset
            l1_size |-> 0,      \* byte size of the L1 blob the freeze made
            promoted |-> 0,     \* offheap sizes of the spills promoted
            outcome |-> "none", \* how the last promotion went: "L2" | "L3" | "Err"
            late |-> FALSE,     \* called after shuffle_write was called
            quiet |-> FALSE,    \* no other operation ran when it was called
            calls |-> 0,        \* spill() calls made before it was called
            history |-> <<>>,   \* the freezes of this task's spill() calls, in order
            iterations |-> 0]   \* iterations the merge loop has made

InitCommon ==
    /\ buffered_batches = <<>>
    /\ buffered_mem_size = 0
    /\ spills = <<>>
    /\ mem_used = 0
    /\ spilled_bytes = 0
    /\ granted = 0
    /\ bufLock = NoTask
    /\ spillsLock = NoTask
    /\ pc = [t \in Tasks |-> "idle"]
    /\ loc = [t \in Tasks |-> LocInit]
    /\ ret = [t \in Tasks |-> "none"]
    /\ output_data = <<>>
    /\ output_index = <<>>
    /\ inserted = <<>>
    /\ nInserts = 0
    /\ nSpillCalls = 0
    /\ phase = "open"
    /\ failed = FALSE
    /\ JniInit

Init == mode = "seq" /\ InitCommon
InitConc == mode = "conc" /\ InitCommon
InitMisuse == mode = "misuse" /\ InitCommon
InitLive == mode = "live" /\ InitCommon

\* In "seq" mode an operation starts only while no other one is running.
MayStart(t) ==
    /\ pc[t] = "idle"
    /\ ~failed
    /\ mode # "conc" => \A u \in Tasks : pc[u] = "idle"

\* The driver keeps to the lifecycle (insert_batch only before shuffle_write,
\* shuffle_write once) unless the run is one of misuse.
InPhase(allowed) == phase \in allowed \/ (mode = "misuse" /\ phase # "dropped")

Goto(t, l) == pc' = [pc EXCEPT ![t] = l]
Return(t, r) ==
    /\ pc' = [pc EXCEPT ![t] = "idle"]
    /\ ret' = [ret EXCEPT ![t] = r]
    /\ failed' = (failed \/ r = "Err")

Files == <<output_data, output_index>>
Counts == <<nInserts, nSpillCalls>>
Locks == <<bufLock, spillsLock>>

\* the two mutexes, by the name of the field they guard
LockOwner(l) == IF l = "spills" THEN spillsLock ELSE bufLock
Acquire(t, l) ==
    IF l = "spills" THEN spillsLock' = t /\ UNCHANGED bufLock
    ELSE bufLock' = t /\ UNCHANGED spillsLock

\* the batches an insert_batch call can be given
InputBatchSet(b) ==
    LET maxRows == IF mode = "seq" THEN MaxRows ELSE ConcMaxRows
        maxHash == IF mode = "seq" THEN MaxHash ELSE ConcMaxHash
    IN  UNION {{[id |-> b, rows |-> [i \in 1..n |-> Row(b, i, hs[i])], mem |-> m] :
                    hs \in [1..n -> 0..maxHash], m \in 0..MaxMem} : n \in 0..maxRows}

\* ---- insert_batch ----
\* try_grow(mem_increase) granted
InsertTryGrowOk(t) ==
    /\ t = "driver" /\ MayStart(t) /\ InPhase({"open"}) /\ nInserts < MaxBatches
    /\ \E input \in InputBatchSet(nInserts + 1) :
        /\ loc' = [loc EXCEPT ![t] = [LocInit EXCEPT !.input = input,
                                                      !.mem_increase = input.mem * 2,
                                                      !.late = (phase # "open")]]
        /\ granted' = granted + input.mem * 2
    /\ nInserts' = nInserts + 1
    /\ Goto(t, "i_add")
    /\ ret' = [ret EXCEPT ![t] = "none"]
    /\ UNCHANGED <<Registry, mode, buffered_batches, buffered_mem_size, spills, mem_used,
                   spilled_bytes, Locks, Files, inserted, nSpillCalls, phase, failed>>

\* mutant: mem_used is raised before try_grow is asked
InsertTryGrowErr_AddsFirst(t) ==
    /\ t = "driver" /\ MayStart(t) /\ InPhase({"open"}) /\ nInserts < MaxBatches
    /\ \E input \in InputBatchSet(nInserts + 1) :
        /\ loc' = [loc EXCEPT ![t] = [LocInit EXCEPT !.mem_increase = input.mem * 2,
                                                     !.late = (phase # "open")]]
        /\ mem_used' = mem_used + input.mem * 2
    /\ nInserts' = nInserts + 1
    /\ Return(t, "Err")
    /\ UNCHANGED <<Registry, mode, buffered_batches, buffered_mem_size, spills,
                   spilled_bytes, granted, Locks, Files, inserted, nSpillCalls, phase>>

\* try_grow(mem_increase) fails: insert_batch returns the error
InsertTryGrowErr(t) ==
    /\ t = "driver" /\ MayStart(t) /\ InPhase({"open"}) /\ nInserts < MaxBatches
    /\ \E input \in InputBatchSet(nInserts + 1) :
        loc' = [loc EXCEPT ![t] = [LocInit EXCEPT !.mem_increase = input.mem * 2,
                                                  !.late = (phase # "open")]]
    /\ nInserts' = nInserts + 1
    /\ Return(t, "Err")
    /\ UNCHANGED <<Registry, mode, buffered_batches, buffered_mem_size, spills, mem_used,
                   spilled_bytes, granted, Locks, Files, inserted, nSpillCalls, phase>>

\* mutant: mem_used grows by the array memory size, not by twice that
InsertAddMemUsed_NotDoubled(t) ==
    /\ pc[t] = "i_add"
    /\ mem_used' = mem_used + loc[t].input.mem
    /\ Goto(t, "i_lock")
    /\ UNCHANGED <<Registry, mode, buffered_batches, buffered_mem_size, spills, spilled_bytes,
                   granted, Locks, loc, ret, Files, inserted, Counts, phase, failed>>

\* self.metrics.mem_used().add(mem_increase)
InsertAddMemUsed(t) ==
    /\ pc[t] = "i_add"
    /\ mem_used' = mem_used + loc[t].mem_increase
    /\ Goto(t, "i_lock")
    /\ UNCHANGED <<Registry, mode, buffered_batches, buffered_mem_size, spills, spilled_bytes,
                   granted, Locks, loc, ret, Files, inserted, Counts, phase, failed>>

\* self.buffered_batches.lock().await
InsertLock(t) ==
    /\ pc[t] = "i_lock"
    /\ bufLock = NoTask
    /\ bufLock' = t
    /\ Goto(t, "i_fetch_add")
    /\ UNCHANGED <<Registry, mode, buffered_batches, buffered_mem_size, spills, mem_used,
                   spilled_bytes, granted, spillsLock, loc, ret, Files, inserted,
                   Counts, phase, failed>>

\* self.buffered_mem_size.fetch_add(mem_increase, SeqCst)
InsertFetchAdd(t) ==
    /\ pc[t] = "i_fetch_add"
    /\ buffered_mem_size' = buffered_mem_size + loc[t].mem_increase
    /\ Goto(t, "i_push")
    /\ UNCHANGED <<Registry, mode, buffered_batches, spills, mem_used, spilled_bytes, granted,
                   Locks, loc, ret, Files, inserted, Counts, phase, failed>>

\* buffered_batches.push(input); Ok(())
InsertPush(t) ==
    /\ pc[t] = "i_push"
    /\ buffered_batches' = Append(buffered_batches, loc[t].input)
    /\ inserted' = Append(inserted, loc[t].input)
    /\ bufLock' = NoTask
    /\ loc' = [loc EXCEPT ![t].input = EmptyBatch]
    /\ Return(t, "Ok")
    /\ UNCHANGED <<Registry, mode, buffered_mem_size, spills, mem_used, spilled_bytes, granted,
                   spillsLock, Files, Counts, phase>>

\* ---- spill ----
\* the tasks the memory manager calls spill() from; two of them only when
\* operations interleave
Spillers == IF mode = "conc" THEN {"mm", "mm2"} ELSE {"mm"}

\* let current_used = self.mem_used()
SpillStart(t) ==
    /\ t \in Spillers /\ MayStart(t) /\ InPhase({"open", "finalizing"})
    /\ nSpillCalls < MaxSpillCalls
    /\ nSpillCalls' = nSpillCalls + 1
    /\ loc' = [loc EXCEPT ![t] = [LocInit EXCEPT !.current_used = mem_used,
                                                  !.seen = Len(inserted),
                                                  !.history = loc[t].history]]
    /\ ret' = [ret EXCEPT ![t] = "none"]
    /\ Goto(t, "s_lock")
    /\ UNCHANGED <<Registry, mode, buffered_batches, buffered_mem_size, spills, mem_used,
                   spilled_bytes, granted, Locks, Files, inserted, nInserts, phase,
                   failed>>

\* mutant: spill() takes the buffer lock before the spills lock
SpillLockOrder_Reversed == <<"buffered_batches", "spills">>

\* the locks spill() takes, in the order it takes them: `spills` in spill()
\* itself, then `buffered_batches` inside spill_buffered_to_l1
SpillLockOrder == <<"spills", "buffered_batches">>

\* self.spills.lock().await
SpillLockSpills(t) ==
    /\ pc[t] = "s_lock"
    /\ LockOwner(SpillLockOrder[1]) = NoTask
    /\ Acquire(t, SpillLockOrder[1])
    /\ Goto(t, "s_load")
    /\ UNCHANGED <<Registry, mode, buffered_batches, buffered_mem_size, spills, mem_used,
                   spilled_bytes, granted, loc, ret, Files, inserted, Counts,
                   phase, failed>>

\* freed += self.buffered_mem_size.load(SeqCst)
SpillLoadBuffered(t) ==
    /\ pc[t] = "s_load"
    /\ loc' = [loc EXCEPT ![t].freed = @ + buffered_mem_size]
    /\ Goto(t, "s_buflock")
    /\ UNCHANGED <<Registry, mode, buffered_batches, buffered_mem_size, spills, mem_used,
                   spilled_bytes, granted, Locks, ret, Files, inserted, Counts, phase,
                   failed>>

\* spill_buffered_to_l1: self.buffered_batches.lock().await
SpillLockBuffer(t) ==
    /\ pc[t] = "s_buflock"
    /\ LockOwner(SpillLockOrder[2]) = NoTask
    /\ Acquire(t, SpillLockOrder[2])
    /\ Goto(t, "s_freeze")
    /\ UNCHANGED <<Registry, mode, buffered_batches, buffered_mem_size, spills, mem_used,
                   spilled_bytes, granted, loc, ret, Files, inserted,
                   Counts, phase, failed>>

\* mutant: the batches are copied for the freeze and stay in the buffer
SpillFreeze_KeepsBuffer(t) ==
    /\ pc[t] = "s_freeze"
    /\ \E in_mem_spill \in FreezeResults(buffered_batches) :
        /\ spills' = Append(spills, in_mem_spill)
        /\ loc' = [loc EXCEPT ![t].freed = @ - offheap_mem_size(in_mem_spill.spill),
                              ![t].frozen_size = buffered_mem_size,
                              ![t].l1_size = Len(in_mem_spill.spill.bytes),
                              ![t].history =
                                    IF mode = "conc" THEN @
                                    ELSE Append(@, [sp |-> in_mem_spill,
                                                    size |-> buffered_mem_size])]
    /\ buffered_mem_size' = 0
    /\ bufLock' = NoTask
    /\ Goto(t, "s_loop")
    /\ UNCHANGED <<Registry, mode, buffered_batches, mem_used, spilled_bytes, granted, spillsLock,
                   ret, Files, inserted, Counts, phase, failed>>

\* spill_buffered_to_l1 returns the spill; freed -= its size; spills.push
SpillFreeze(t) ==
    /\ pc[t] = "s_freeze"
    /\ \E in_mem_spill \in FreezeResults(buffered_batches) :
        /\ spills' = Append(spills, in_mem_spill)
        /\ loc' = [loc EXCEPT ![t].freed = @ - offheap_mem_size(in_mem_spill.spill),
                              ![t].frozen_size = buffered_mem_size,
                              ![t].l1_size = Len(in_mem_spill.spill.bytes),
                              ![t].history =
                                    IF mode = "conc" THEN @
                                    ELSE Append(@, [sp |-> in_mem_spill,
                                                    size |-> buffered_mem_size])]
    /\ buffered_batches' = <<>>
    /\ buffered_mem_size' = 0
    /\ bufLock' = NoTask
    /\ Goto(t, "s_loop")
    /\ UNCHANGED <<Registry, mode, mem_used, spilled_bytes, granted, spillsLock, ret, Files,
                   inserted, Counts, phase, failed>>

\* spill_buffered_to_l1 fails after the batches were taken out of the buffer
SpillFreezeErr(t) ==
    /\ pc[t] = "s_freeze"
    /\ buffered_batches # <<>>
    /\ buffered_batches' = <<>>
    /\ bufLock' = NoTask
    /\ spillsLock' = NoTask
    /\ Return(t, "Err")
    /\ UNCHANGED <<Registry, mode, buffered_mem_size, spills, mem_used, spilled_bytes, granted,
                   loc, Files, inserted, Counts, phase>>

\* max_by_key(offheap_mem_size): the last of the largest, 0-based
PopIndex(sps) ==
    (CHOOSE i \in 1..Len(sps) :
        /\ \A j \in 1..Len(sps) :
                offheap_mem_size(sps[j].spill) <= offheap_mem_size(sps[i].spill)
        /\ \A j \in (i + 1)..Len(sps) :
                offheap_mem_size(sps[j].spill) < offheap_mem_size(sps[i].spill)) - 1

\* while freed < current_used as isize / 2
MustPromote(l) == l.freed < TruncDiv(l.current_used, 2)

PopSpill == spills[PopIndex(spills) + 1]
PopSize == offheap_mem_size(PopSpill.spill)

\* mutant: the promoted spill is not pushed back
SpillPromoteL2_NoPushBack(t) ==
    /\ pc[t] = "s_loop" /\ MustPromote(loc[t])
    /\ "Ok" \in to_l2_outcomes(PopSpill.spill)
    /\ loc' = [loc EXCEPT ![t].freed = @ + PopSize, ![t].promoted = @ + PopSize,
                          ![t].outcome = "L2"]
    /\ spills' = RemoveAt(spills, PopIndex(spills))
    /\ UNCHANGED <<Registry, mode, buffered_batches, buffered_mem_size, mem_used, spilled_bytes,
                   granted, Locks, pc, ret, Files, inserted, Counts, phase, failed>>

\* one promotion: to_l2 succeeds
SpillPromoteL2(t) ==
    /\ pc[t] = "s_loop" /\ MustPromote(loc[t])
    /\ "Ok" \in to_l2_outcomes(PopSpill.spill)
    /\ loc' = [loc EXCEPT ![t].freed = @ + PopSize, ![t].promoted = @ + PopSize,
                          ![t].outcome = "L2"]
    /\ spills' = Append(RemoveAt(spills, PopIndex(spills)),
                        [PopSpill EXCEPT !.spill = to_l2(@)])
    /\ UNCHANGED <<Registry, mode, buffered_batches, buffered_mem_size, mem_used, spilled_bytes,
                   granted, Locks, pc, ret, Files, inserted, Counts, phase, failed>>

\* mutant: the fall-back to L3 does not record the spilled bytes
SpillPromoteL3_NoRecord(t) ==
    /\ pc[t] = "s_loop" /\ MustPromote(loc[t])
    /\ "ResourcesExhausted" \in to_l2_outcomes(PopSpill.spill)
    /\ "Ok" \in to_l3_outcomes(PopSpill.spill)
    /\ loc' = [loc EXCEPT ![t].freed = @ + PopSize, ![t].promoted = @ + PopSize,
                          ![t].outcome = "L3"]
    /\ spills' = Append(RemoveAt(spills, PopIndex(spills)),
                        [PopSpill EXCEPT !.spill = to_l3(@)])
    /\ UNCHANGED <<Registry, mode, buffered_batches, buffered_mem_size, mem_used, spilled_bytes,
                   granted, Locks, pc, ret, Files, inserted, Counts, phase, failed>>

\* mutant: the spill moved to L3 is pushed back with a fresh offsets table
SpillPromoteL3_FreshOffsets(t) ==
    /\ pc[t] = "s_loop" /\ MustPromote(loc[t])
    /\ "ResourcesExhausted" \in to_l2_outcomes(PopSpill.spill)
    /\ "Ok" \in to_l3_outcomes(PopSpill.spill)
    /\ loc' = [loc EXCEPT ![t].freed = @ + PopSize, ![t].promoted = @ + PopSize,
                          ![t].outcome = "L3"]
    /\ spilled_bytes' = spilled_bytes + PopSize
    /\ spills' = Append(RemoveAt(spills, PopIndex(spills)),
                        [spill |-> to_l3(PopSpill.spill),
                         offsets |-> [e \in 1..(NumPartitions + 1) |-> 0]])
    /\ UNCHANGED <<Registry, mode, buffered_batches, buffered_mem_size, mem_used, granted, Locks,
                   pc, ret, Files, inserted, Counts, phase, failed>>

\* one promotion: to_l2 is out of resources, to_l3 succeeds
SpillPromoteL3(t) ==
    /\ pc[t] = "s_loop" /\ MustPromote(loc[t])
    /\ "ResourcesExhausted" \in to_l2_outcomes(PopSpill.spill)
    /\ "Ok" \in to_l3_outcomes(PopSpill.spill)
    /\ loc' = [loc EXCEPT ![t].freed = @ + PopSize, ![t].promoted = @ + PopSize,
                          ![t].outcome = "L3"]
    /\ spilled_bytes' = spilled_bytes + PopSize
    /\ spills' = Append(RemoveAt(spills, PopIndex(spills)),
                        [PopSpill EXCEPT !.spill = to_l3(@)])
    /\ UNCHANGED <<Registry, mode, buffered_batches, buffered_mem_size, mem_used, granted, Locks,
                   pc, ret, Files, inserted, Counts, phase, failed>>

\* mutant: a failed promotion drops the spill and the loop goes on
SpillPromoteErr_GoesOn(t) ==
    /\ pc[t] = "s_loop" /\ MustPromote(loc[t])
    /\ \/ "Err" \in to_l2_outcomes(PopSpill.spill)
       \/ /\ "ResourcesExhausted" \in to_l2_outcomes(PopSpill.spill)
          /\ "Err" \in to_l3_outcomes(PopSpill.spill)
    /\ loc' = [loc EXCEPT ![t].freed = @ + PopSize, ![t].promoted = @ + PopSize,
                          ![t].outcome = "Err"]
    /\ spills' = RemoveAt(spills, PopIndex(spills))
    /\ UNCHANGED <<Registry, mode, buffered_batches, buffered_mem_size, mem_used, spilled_bytes,
                   granted, Locks, pc, ret, Files, inserted, Counts, phase, failed>>

\* one promotion fails: to_l2 with another error, or to_l3 after it
SpillPromoteErr(t) ==
    /\ pc[t] = "s_loop" /\ MustPromote(loc[t])
    /\ \/ "Err" \in to_l2_outcomes(PopSpill.spill)
       \/ /\ "ResourcesExhausted" \in to_l2_outcomes(PopSpill.spill)
          /\ "Err" \in to_l3_outcomes(PopSpill.spill)
    /\ loc' = [loc EXCEPT ![t].freed = @ + PopSize, ![t].promoted = @ + PopSize,
                          ![t].outcome = "Err"]
    /\ spills' = RemoveAt(spills, PopIndex(spills))
    /\ spillsLock' = NoTask
    /\ Return(t, "Err")
    /\ UNCHANGED <<Registry, mode, buffered_batches, buffered_mem_size, mem_used, spilled_bytes,
                   granted, bufLock, Files, inserted, Counts, phase>>

\* self.metrics.mem_used().sub(freed); Ok(freed)
SpillFinish(t) ==
    /\ pc[t] = "s_loop" /\ ~MustPromote(loc[t])
    /\ mem_used' = mem_used - loc[t].freed
    /\ granted' = granted - loc[t].freed
    /\ spillsLock' = NoTask
    /\ Return(t, "Ok")
    /\ UNCHANGED <<Registry, mode, buffered_batches, buffered_mem_size, spills, spilled_bytes,
                   bufLock, loc, Files, inserted, Counts, phase>>

\* ---- shuffle_write ----
\* shuffle_write is called
WriteStart(t) ==
    /\ t = "driver" /\ MayStart(t) /\ InPhase({"open"})
    /\ phase' = "finalizing"
    /\ loc' = [loc EXCEPT ![t] = [LocInit EXCEPT
                    !.late = (phase # "open"),
                    !.quiet = (\A u \in Tasks : pc[u] = "idle"),
                    !.calls = nSpillCalls]]
    /\ ret' = [ret EXCEPT ![t] = "none"]
    /\ Goto(t, "w_lock")
    /\ UNCHANGED <<Registry, mode, buffered_batches, buffered_mem_size, spills, mem_used,
                   spilled_bytes, granted, Locks, Files, inserted, Counts, failed>>

\* self.spills.lock().await
WriteLockSpills(t) ==
    /\ pc[t] = "w_lock"
    /\ spillsLock = NoTask
    /\ spillsLock' = t
    /\ Goto(t, "w_check")
    /\ UNCHANGED <<Registry, mode, buffered_batches, buffered_mem_size, spills, mem_used,
                   spilled_bytes, granted, bufLock, loc, ret, Files, inserted, Counts,
                   phase, failed>>

\* if self.buffered_mem_size.load(SeqCst) > 0
WriteCheckBuffered(t) ==
    /\ pc[t] = "w_check"
    /\ Goto(t, IF buffered_mem_size > 0 THEN "w_buflock" ELSE "w_open")
    /\ UNCHANGED <<Registry, mode, buffered_batches, buffered_mem_size, spills, mem_used,
                   spilled_bytes, granted, Locks, loc, ret, Files, inserted, Counts,
                   phase, failed>>

\* spill_buffered_to_l1: self.buffered_batches.lock().await
WriteLockBuffer(t) ==
    /\ pc[t] = "w_buflock"
    /\ bufLock = NoTask
    /\ bufLock' = t
    /\ Goto(t, "w_freeze")
    /\ UNCHANGED <<Registry, mode, buffered_batches, buffered_mem_size, spills, mem_used,
                   spilled_bytes, granted, spillsLock, loc, ret, Files, inserted,
                   Counts, phase, failed>>

\* mutant: the buffer lock taken for the flush is kept until shuffle_write ends
WriteFreeze_KeepsLock(t) ==
    /\ pc[t] = "w_freeze"
    /\ \E in_mem_spill \in FreezeResults(buffered_batches) :
        spills' = Append(spills, in_mem_spill)
    /\ buffered_batches' = <<>>
    /\ buffered_mem_size' = 0
    /\ Goto(t, "w_open")
    /\ UNCHANGED <<Registry, mode, mem_used, spilled_bytes, granted, Locks, loc, ret, Files,
                   inserted, Counts, phase, failed>>

\* spills.push(self.spill_buffered_to_l1().await?)
WriteFreeze(t) ==
    /\ pc[t] = "w_freeze"
    /\ \E in_mem_spill \in FreezeResults(buffered_batches) :
        spills' = Append(spills, in_mem_spill)
    /\ buffered_batches' = <<>>
    /\ buffered_mem_size' = 0
    /\ bufLock' = NoTask
    /\ Goto(t, "w_open")
    /\ UNCHANGED <<Registry, mode, mem_used, spilled_bytes, granted, spillsLock, loc, ret, Files,
                   inserted, Counts, phase, failed>>

\* spill_buffered_to_l1 fails after the batches were taken out of the buffer
WriteFreezeErr(t) ==
    /\ pc[t] = "w_freeze"
    /\ buffered_batches # <<>>
    /\ buffered_batches' = <<>>
    /\ bufLock' = NoTask
    /\ spillsLock' = NoTask
    /\ Return(t, "Err")
    /\ UNCHANGED <<Registry, mode, buffered_mem_size, spills, mem_used, spilled_bytes, granted,
                   loc, Files, inserted, Counts, phase>>

\* LoserTree::new_by over the cursors of the taken spills; the data file is
\* opened with create + truncate
WriteOpen(t) ==
    /\ pc[t] = "w_open"
    /\ loc' = [loc EXCEPT ![t].taken = spills,
                          ![t].tree = BuildCursors(spills),
                          ![t].offsets = <<0>>,
                          ![t].cur_partition_id = 0]
    /\ spills' = <<>>
    /\ output_data' = <<>>
    /\ Goto(t, "w_merge")
    /\ UNCHANGED <<Registry, mode, buffered_batches, buffered_mem_size, mem_used, spilled_bytes,
                   granted, Locks, ret, output_index, inserted, Counts, phase, failed>>

\* opening the data file fails
WriteOpenErr(t) ==
    /\ pc[t] = "w_open"
    /\ spills' = <<>>
    /\ spillsLock' = NoTask
    /\ Return(t, "Err")
    /\ UNCHANGED <<Registry, mode, buffered_batches, buffered_mem_size, mem_used, spilled_bytes,
                   granted, bufLock, loc, Files, inserted, Counts, phase>>

MergeState(t) ==
    [tree |-> loc[t].tree, offsets |-> loc[t].offsets,
     cur_partition_id |-> loc[t].cur_partition_id, out |-> output_data]

\* the loop is left when there is no leaf or the selected one is finished
MergeOver(tree) == tree = <<>> \/ \E m \in peek_mut(tree) : finished(tree[m])

\* one iteration of the merge loop
WriteMerge(t) ==
    /\ pc[t] = "w_merge"
    /\ loc[t].tree # <<>>
    /\ \E m \in peek_mut(loc[t].tree) :
        /\ ~finished(loc[t].tree[m])
        /\ LET st == MergeStep(MergeState(t), m)
           IN  /\ loc' = [loc EXCEPT ![t].tree = st.tree,
                                     ![t].offsets = st.offsets,
                                     ![t].cur_partition_id = st.cur_partition_id,
                                     ![t].iterations = @ + 1]
               /\ output_data' = st.out
    /\ UNCHANGED <<Registry, mode, buffered_batches, buffered_mem_size, spills, mem_used,
                   spilled_bytes, granted, Locks, pc, ret, output_index, inserted,
                   Counts, phase, failed>>

\* flush; offsets.resize; the index file is created and written
WriteIndex(t) ==
    /\ pc[t] = "w_merge"
    /\ MergeOver(loc[t].tree)
    /\ output_index' = IndexBytes(loc[t].offsets, Len(output_data))
    /\ loc' = [loc EXCEPT ![t].tree = <<>>,
                          ![t].offsets = Resize(@, NumPartitions + 1, Len(output_data))]
    /\ Goto(t, "w_reset")
    /\ UNCHANGED <<Registry, mode, buffered_batches, buffered_mem_size, spills, mem_used,
                   spilled_bytes, granted, Locks, ret, output_data, inserted, Counts,
                   phase, failed>>

\* creating the index file fails: the data file stays as written
WriteIndexErr(t) ==
    /\ pc[t] = "w_merge"
    /\ MergeOver(loc[t].tree)
    /\ loc' = [loc EXCEPT ![t].tree = <<>>]
    /\ spillsLock' = NoTask
    /\ Return(t, "Err")
    /\ UNCHANGED <<Registry, mode, buffered_batches, buffered_mem_size, spills, mem_used,
                   spilled_bytes, granted, bufLock, Files, inserted, Counts, phase>>

\* mutant: mem_used is reset without the shrink
WriteResetMemUsed_NoShrink(t) ==
    /\ pc[t] = "w_reset"
    /\ mem_used' = 0
    /\ loc' = [loc EXCEPT ![t].used = mem_used]
    /\ spillsLock' = NoTask
    /\ phase' = "closed"
    /\ Return(t, "Ok")
    /\ UNCHANGED <<Registry, mode, buffered_batches, buffered_mem_size, spills, spilled_bytes,
                   granted, bufLock, Files, inserted, Counts>>

\* let used = self.metrics.mem_used().set(0); self.shrink(used); Ok(())
WriteResetMemUsed(t) ==
    /\ pc[t] = "w_reset"
    /\ mem_used' = 0
    /\ loc' = [loc EXCEPT ![t].used = mem_used]
    /\ granted' = granted - mem_used
    /\ spillsLock' = NoTask
    /\ phase' = "closed"
    /\ Return(t, "Ok")
    /\ UNCHANGED <<Registry, mode, buffered_batches, buffered_mem_size, spills, spilled_bytes,
                   bufLock, Files, inserted, Counts>>

\* ---- drop ----
\* mutant: drop_consumer is told that nothing is left
Drop_ReportsZero ==
    /\ phase # "dropped"
    /\ \A t \in Tasks : pc[t] = "idle"
    /\ phase' = "dropped"
    /\ UNCHANGED <<Registry, mode, buffered_batches, buffered_mem_size, spills, mem_used,
                   spilled_bytes, granted, Locks, pc, loc, ret, Files, inserted, Counts,
                   failed>>

\* self.runtime.drop_consumer(self.id(), self.mem_used())
Drop ==
    /\ phase # "dropped"
    /\ \A t \in Tasks : pc[t] = "idle"
    /\ granted' = granted - mem_used
    /\ phase' = "dropped"
    /\ UNCHANGED <<Registry, mode, buffered_batches, buffered_mem_size, spills, mem_used,
                   spilled_bytes, Locks, pc, loc, ret, Files, inserted, Counts, failed>>

Next ==
    \/ \E t \in Tasks :
        \/ InsertTryGrowOk(t) \/ InsertTryGrowErr(t) \/ InsertAddMemUsed(t)
        \/ InsertLock(t) \/ InsertFetchAdd(t) \/ InsertPush(t)
        \/ SpillStart(t) \/ SpillLockSpills(t) \/ SpillLoadBuffered(t)
        \/ SpillLockBuffer(t) \/ SpillFreeze(t) \/ SpillFreezeErr(t)
        \/ SpillPromoteL2(t) \/ SpillPromoteL3(t) \/ SpillPromoteErr(t)
        \/ SpillFinish(t)
        \/ WriteStart(t) \/ WriteLockSpills(t) \/ WriteCheckBuffered(t) \/ WriteLockBuffer(t)
        \/ WriteFreeze(t) \/ WriteFreezeErr(t) \/ WriteOpen(t) \/ WriteOpenErr(t)
        \/ WriteMerge(t) \/ WriteIndex(t) \/ WriteIndexErr(t)
        \/ WriteResetMemUsed(t)
    \/ Drop

Spec == Init /\ [][Next]_vars
SpecConc == InitConc /\ [][Next]_vars
SpecMisuse == InitMisuse /\ [][Next]_vars

\* shuffle_write runs its merge loop without awaiting anything: an iteration
\* that can be made is made, and so is the step that follows the loop
LoopRuns ==
    /\ WF_vars(WriteMerge("driver"))
    /\ WF_vars(WriteIndex("driver") \/ WriteIndexErr("driver"))
SpecLive == InitLive /\ [][Next]_vars /\ LoopRuns

\* ---- JavaClasses::init and JavaClasses::get --------------------------------
Repartitioner ==
    <<mode, buffered_batches, buffered_mem_size, spills, mem_used, spilled_bytes,
      granted, bufLock, spillsLock, pc, loc, ret, output_data, output_index, inserted,
      nInserts, nSpillCalls, phase, failed>>

\* JavaClasses::init(env) is called
InitCall(th) ==
    /\ jni.pc[th] = "idle" /\ jni.calls[th] < MaxJniCalls
    /\ jni' = [jni EXCEPT !.pc[th] = "get_or_init", !.calls[th] = @ + 1]
    /\ UNCHANGED <<JNI_JAVA_CLASSES, Repartitioner>>

\* get_or_init on a cell that holds a value: the closure is not called
GetOrInitHit(th) ==
    /\ jni.pc[th] = "get_or_init" /\ Initialized(JNI_JAVA_CLASSES)
    /\ jni' = [jni EXCEPT !.pc[th] = "idle", !.returned = @ + 1]
    /\ UNCHANGED <<JNI_JAVA_CLASSES, Repartitioner>>

\* mutant: the closure is entered whenever the cell holds no value yet
GetOrInitRun_NoWait(th) ==
    /\ jni.pc[th] = "get_or_init" /\ ~Initialized(JNI_JAVA_CLASSES)
    /\ JNI_JAVA_CLASSES' = Running
    /\ jni' = [jni EXCEPT !.pc[th] = "body", !.runs = @ + 1]
    /\ UNCHANGED Repartitioner

\* get_or_init on an empty cell: this thread runs the closure; a thread that
\* finds the cell running waits
GetOrInitRun(th) ==
    /\ jni.pc[th] = "get_or_init" /\ JNI_JAVA_CLASSES = Incomplete
    /\ JNI_JAVA_CLASSES' = Running
    /\ jni' = [jni EXCEPT !.pc[th] = "body", !.runs = @ + 1]
    /\ UNCHANGED Repartitioner

\* the closure returns java_classes; the cell takes it and init returns
InitBodyDone(th) ==
    /\ jni.pc[th] = "body"
    /\ JNI_JAVA_CLASSES' = Complete(JavaClasses(th, jni.runs))
    /\ jni' = [jni EXCEPT !.pc[th] = "idle", !.returned = @ + 1]
    /\ UNCHANGED Repartitioner

\* JavaClasses::get(): get_unchecked, whatever the state of the cell
Get(th) ==
    /\ jni.pc[th] = "idle" /\ jni.calls[th] < MaxJniCalls
    /\ \E value \in IF Initialized(JNI_JAVA_CLASSES) THEN {JNI_JAVA_CLASSES.value} ELSE Junk :
        jni' = [jni EXCEPT !.calls[th] = @ + 1,
                           !.got[th] = [value |-> value, late |-> jni.returned > 0]]
    /\ UNCHANGED <<JNI_JAVA_CLASSES, Repartitioner>>

NextJni ==
    \E th \in Threads :
        \/ InitCall(th) \/ GetOrInitHit(th) \/ GetOrInitRun(th)
        \/ InitBodyDone(th) \/ Get(th)

InitJni == mode = "jni" /\ InitCommon
SpecJni == InitJni /\ [][NextJni]_vars

\* ---- reading the output back ------------------------------------------------
\* a byte string is a whole number of frames: header n, then n rows
RECURSIVE Decodable(_)
Decodable(bytes) ==
    IF bytes = <<>> THEN TRUE
    ELSE /\ IsHdr(bytes[1])
         /\ Len(bytes) >= 1 + bytes[1][2]
         /\ \A k \in 2..(1 + bytes[1][2]) : ~IsHdr(bytes[k])
         /\ Decodable(SubSeq(bytes, 2 + bytes[1][2], Len(bytes)))

\* the rows of the frames of a byte string, in order
RowsOf(bytes) == SelectSeq(bytes, LAMBDA tok : ~IsHdr(tok))

RECURSIVE FromLeBytes(_)
FromLeBytes(bs) == IF bs = <<>> THEN 0 ELSE Head(bs) + 256 * FromLeBytes(Tail(bs))

\* the entries of an index file, each read as a little-endian i64
IndexOf(bytes) ==
    [p \in 1..(Len(bytes) \div 8) |-> FromLeBytes(SubSeq(bytes, 8 * p - 7, 8 * p))]

\* bytes [index[p], index[p+1]) of a data file, p 0-based
RangeOf(data, index, p) == SubSeq(data, index[p + 1] + 1, index[p + 2])

\* bytes offsets[p]..offsets[p+1] of one spill, p 0-based
SpillPart(sp, p) == SubSeq(sp.spill.bytes, sp.offsets[p + 1] + 1, sp.offsets[p + 2])

Count(seq, x) == Cardinality({k \in 1..Len(seq) : seq[k] = x})
SameRows(a, b) ==
    \A x \in {a[k] : k \in 1..Len(a)} \cup {b[k] : k \in 1..Len(b)} :
        Count(a, x) = Count(b, x)

PartitionOf(row) == evaluate_partition_ids(RowHash(row))
RowsIn(rows, p) == SelectSeq(rows, LAMBDA r : PartitionOf(r) = p)
Partitions == 0..(NumPartitions - 1)

\* shuffle_write has returned Ok
Written == phase = "closed"
Index == IndexOf(output_index)

\* ---- claims -------------------------------------------------------------------
\* C1: row conservation. After successful inserts, spills and one successful
\* shuffle_write, the data file decodes to exactly the rows inserted (the same
\* multiset), also for batches whose array memory size is 0.
C1_RowConservation ==
    Written => /\ Decodable(output_data)
               /\ SameRows(RowsOf(output_data), concat_batches(inserted))

\* C2: partition grouping. After a successful shuffle_write every row stored in
\* the data-file range [index[p], index[p+1]) has partition id p.
C2_PartitionGrouping ==
    Written =>
        /\ Len(Index) = NumPartitions + 1
        /\ \A p \in Partitions :
            LET range == RangeOf(output_data, Index, p)
            IN  /\ Decodable(range)
                /\ \A k \in 1..Len(range) :
                        ~IsHdr(range[k]) => PartitionOf(range[k]) = p

\* a finished run with a spill() call whose output holds rows of two partitions,
\* one of them coming in more than one frame
C2_Witness ==
    /\ Written
    /\ nSpillCalls >= 1
    /\ \E p, q \in Partitions :
        /\ p # q
        /\ Len(RowsOf(RangeOf(output_data, Index, p))) >= 2
        /\ Len(RangeOf(output_data, Index, p)) >= 4
        /\ RangeOf(output_data, Index, q) # <<>>

\* C3: index shape. After a successful shuffle_write the index file holds exactly
\* N+1 entries, the first is 0, they never decrease, and the last one is the
\* length of the data file.
C3_IndexShape ==
    Written =>
        /\ Len(output_index) = 8 * (NumPartitions + 1)
        /\ Index[1] = 0
        /\ \A p \in 1..NumPartitions : Index[p] <= Index[p + 1]
        /\ Index[NumPartitions + 1] = Len(output_data)

\* a finished run with spill() calls whose first partition is empty, whose last
\* partition is empty, and whose data file is not
C3_Witness ==
    /\ Written
    /\ nSpillCalls >= 1
    /\ Len(output_index) = 8 * (NumPartitions + 1)
    /\ Index[2] = 0
    /\ Index[NumPartitions] = Index[NumPartitions + 1]
    /\ Len(output_data) > 0

\* the spills list as shuffle_write took it for the merge
Taken == loc["driver"].taken

Injective(f) == \A a, b \in DOMAIN f : f[a] = f[b] => a = b
Orders(n) == {f \in [1..n -> 1..n] : Injective(f)}

\* partition p's bytes of the given spills, concatenated in the given order
PartsInOrder(sps, order, p) ==
    Flatten([i \in 1..Len(sps) |-> SpillPart(sps[order[i]], p)])

DataLengthIsSum ==
    Len(output_data) =
        SumSeq([i \in 1..Len(Taken) |-> Taken[i].offsets[NumPartitions + 1]])

RECURSIVE MergeOutcomes(_)
MergeOutcomes(st) ==
    IF MergeOver(st.tree) THEN {st}
    ELSE UNION {MergeOutcomes(MergeStep(st, m)) : m \in peek_mut(st.tree)}

\* what shuffle_write leaves when it runs right after the insertions: the
\* two files and the batches still in the buffer
NoSpillRuns(batches) ==
    LET size == SumSeq([i \in 1..Len(batches) |-> batches[i].mem * 2])
        lists == IF size > 0 THEN {<<sp>> : sp \in FreezeResults(batches)} ELSE {<<>>}
        ends == UNION {MergeOutcomes([tree |-> BuildCursors(sps), offsets |-> <<0>>,
                                      cur_partition_id |-> 0, out |-> <<>>]) :
                            sps \in lists}
    IN  {[data |-> st.out,
          index |-> IndexBytes(st.offsets, Len(st.out)),
          left |-> IF size > 0 THEN <<>> ELSE batches] : st \in ends}

C6_EmptyInput ==
    (Written /\ nInserts = 0) =>
        /\ output_data = <<>>
        /\ output_index = [i \in 1..(8 * (NumPartitions + 1)) |-> 0]

\* a finished run without insertions and with a spill() call
C6_Witness == Written /\ nInserts = 0 /\ nSpillCalls >= 1

\* C7: memory accounting at finalization. When shuffle_write has returned Ok,
\* mem_used is 0 and the memory manager holds nothing granted to the consumer.
C7_MemUsedZero == Written => (mem_used = 0 /\ granted = 0)

\* a finished run whose shuffle_write found mem_used above 0 after a spill()
C7_Witness == Written /\ loc["driver"].used > 0 /\ nSpillCalls >= 1

\* C8: offset coverage. Every spill has N+1 offsets that start at 0, never
\* decrease and end at the length of its bytes, and offsets[p]..offsets[p+1]
\* is exactly the frames of partition p (nothing when p has no rows).
OffsetsCover(sp) ==
    /\ Len(sp.offsets) = NumPartitions + 1
    /\ sp.offsets[1] = 0
    /\ \A p \in 1..NumPartitions : sp.offsets[p] <= sp.offsets[p + 1]
    /\ sp.offsets[NumPartitions + 1] = Len(sp.spill.bytes)
    /\ \A p \in Partitions :
        /\ Decodable(SpillPart(sp, p))
        /\ RowsOf(SpillPart(sp, p)) = RowsIn(RowsOf(sp.spill.bytes), p)

C8_OffsetCoverage == \A i \in 1..Len(spills) : OffsetsCover(spills[i])

\* a spill whose first two partitions are empty and whose third one holds
\* more than one frame
C8_Witness ==
    \E i \in 1..Len(spills) :
        /\ spills[i].offsets[3] = 0
        /\ Cardinality({k \in 1..Len(spills[i].spill.bytes) :
                            IsHdr(spills[i].spill.bytes[k])}) >= 2

\* ---- locks ----
\* the mutex a task is about to take, "none" when it is not at a lock()
WaitsFor(t) ==
    CASE pc[t] = "s_lock" -> SpillLockOrder[1]
      [] pc[t] = "s_buflock" -> SpillLockOrder[2]
      [] pc[t] = "w_lock" -> "spills"
      [] pc[t] \in {"w_buflock", "i_lock"} -> "buffered_batches"
      [] OTHER -> "none"

Blocked(t) == WaitsFor(t) # "none" /\ LockOwner(WaitsFor(t)) # NoTask

NoSpillsWaitHoldingBuffer == \A t \in Tasks : WaitsFor(t) = "spills" => bufLock # t

SomeTaskRuns ==
    (\E t \in Tasks : pc[t] # "idle") => \E t \in Tasks : pc[t] # "idle" /\ ~Blocked(t)

\* no step takes `spills` while its task holds `buffered_batches`
SpillsTakenFirst ==
    \A t \in Tasks : (spillsLock # t /\ spillsLock' = t) => bufLock # t

\* C9: deadlock freedom. In every interleaving a task that holds both mutexes
\* took `spills` first, no task waits for `spills` while it holds
\* `buffered_batches`, and the running tasks are never all blocked on a lock.
C9_DeadlockFree ==
    /\ [](NoSpillsWaitHoldingBuffer /\ SomeTaskRuns)
    /\ [][SpillsTakenFirst]_vars

\* one task holds both mutexes while a second waits for `spills` and a third
\* for `buffered_batches`
C9_Witness ==
    \E t, u, v \in Tasks :
        /\ spillsLock = t /\ bufLock = t
        /\ Blocked(u) /\ WaitsFor(u) = "spills"
        /\ Blocked(v) /\ WaitsFor(v) = "buffered_batches"

\* ---- visibility of an inserted batch ----
InSpills(row) ==
    \E i \in 1..Len(spills) :
        \E k \in 1..Len(spills[i].spill.bytes) : spills[i].spill.bytes[k] = row

\* the batches inserted before task t called spill() are in the spills list
\* and not in the buffer
SeenAreSpilled(t) ==
    \A n \in 1..loc[t].seen :
        /\ \A k \in 1..Len(inserted[n].rows) : InSpills(inserted[n].rows[k])
        /\ \A j \in 1..Len(buffered_batches) : buffered_batches[j].id # inserted[n].id

SpillReturnsOk(t) == pc[t] = "s_loop" /\ pc'[t] = "idle" /\ ret'[t] = "Ok"

C11_SpillReturnValue ==
    [][\A t \in Tasks :
            SpillReturnsOk(t) =>
                /\ mem_used' = mem_used - loc[t].freed
                /\ loc[t].freed
                        = loc[t].frozen_size - loc[t].l1_size + loc[t].promoted]_vars

\* ---- lifecycle ----
Returns(t) == pc[t] # "idle" /\ pc'[t] = "idle"

LinearPhases ==
    phase' # phase =>
        \/ phase' = "dropped"
        \/ <<phase, phase'>> \in {<<"open", "finalizing">>, <<"finalizing", "closed">>}

\* C12: lifecycle. The operator moves only Open -> Finalizing -> Closed; an
\* insert_batch or a shuffle_write called after shuffle_write was called never
\* returns Ok, and such a shuffle_write leaves the two output files as they are.
C12_Lifecycle ==
    [][/\ LinearPhases
       /\ \A t \in Tasks :
            loc[t].late =>
                /\ Returns(t) => ret'[t] # "Ok"
                /\ UNCHANGED Files]_vars

\* ---- tier promotion ----
\* task t, inside the promotion loop of spill(), takes a step that shows
PromotionStep(t) == pc[t] = "s_loop" /\ (loc'[t] # loc[t] \/ spills' # spills)

\* C13: L2 exhaustion is recovered. When to_l2 is out of resources and to_l3
\* succeeds, spill() goes on without an error, the popped spill is pushed back
\* at tier L3 and spilled_bytes grows by the offheap size the spill had before
\* the promotion; spilled_bytes stays as it is when to_l2 succeeds.
C13_L2Exhaustion ==
    [][\A t \in Tasks :
            PromotionStep(t) =>
                /\ loc'[t].outcome = "L3" =>
                    /\ pc'[t] = "s_loop" /\ ret' = ret /\ failed' = failed
                    /\ spills' = Append(RemoveAt(spills, PopIndex(spills)),
                                        [PopSpill EXCEPT !.spill.tier = "L3"])
                    /\ spilled_bytes' = spilled_bytes + PopSize
                /\ loc'[t].outcome = "L2" => spilled_bytes' = spilled_bytes]_vars

\* a spill() has returned Ok after it moved a spill of some size to L3, and
\* an earlier promotion in the run went to L2
C13_Witness ==
    \E t \in Tasks :
        /\ pc[t] = "idle" /\ ret[t] = "Ok" /\ loc[t].outcome = "L3"
        /\ spilled_bytes > 0
        /\ \E i, j \in 1..Len(spills) :
                spills[i].spill.tier = "L3" /\ spills[j].spill.tier = "L2"

\* ---- drop ----
Dropped == phase = "dropped"

\* C14: drop reports the residual. Whenever the operator is dropped, before or
\* after shuffle_write, the mem_used that drop_consumer is given is what the
\* memory manager still holds granted to the consumer (the try_grow grants
\* minus what spill() returned minus what was shrunk), so that nothing stays
\* granted after the drop.
C14_DropResidual ==
    /\ []((\A t \in Tasks : pc[t] = "idle") /\ ~Dropped => granted = mem_used)
    /\ [](Dropped => granted = 0)

\* the operator was dropped before shuffle_write, after an insertion and a
\* spill() that returned Ok, while mem_used was above 0
C14_Witness ==
    /\ Dropped /\ ~failed
    /\ output_index = <<>>
    /\ mem_used > 0
    /\ Len(inserted) >= 1
    /\ ret["mm"] = "Ok"

\* ---- interleaved insert_batch and spill() ----
\* shuffle_write was called when no other operation was running, and no
\* spill() was called after it
WriteRanAlone == loc["driver"].quiet /\ loc["driver"].calls = nSpillCalls

Steps(t) == pc'[t] # pc[t]
InInsert(t) == pc[t] \in {"i_add", "i_lock", "i_fetch_add", "i_push"}
\* 2 * get_array_memory_size() of the batch task t is inserting
Doubled(t) == 2 * loc[t].input.mem

\* C16: insert_batch accounting. A successful insert_batch(b) is granted
\* 2 * array_memory_size(b) by try_grow, then raises mem_used and
\* buffered_mem_size by exactly that amount each and appends b to
\* buffered_batches; it changes nothing in the spills list.
C16_InsertAccounting ==
    [][\A t \in Tasks :
        /\ (pc[t] = "idle" /\ pc'[t] = "i_add") =>
                /\ granted' = granted + Doubled(t)'
                /\ UNCHANGED <<mem_used, buffered_mem_size, buffered_batches, spills>>
        /\ (InInsert(t) /\ Steps(t)) =>
                /\ spills' = spills
                /\ granted' = granted
                /\ mem_used' =
                        mem_used + (IF pc[t] = "i_add" THEN Doubled(t) ELSE 0)
                /\ buffered_mem_size' =
                        buffered_mem_size + (IF pc[t] = "i_fetch_add" THEN Doubled(t) ELSE 0)
                /\ buffered_batches' =
                        IF pc[t] = "i_push" THEN Append(buffered_batches, loc[t].input)
                        ELSE buffered_batches
                /\ pc'[t] = "idle" <=> pc[t] = "i_push"
                /\ pc'[t] = "idle" => ret'[t] = "Ok"]_vars

\* an insert_batch of a batch of non-zero size has returned Ok on an operator
\* that holds a spill and an earlier batch in the buffer
C16_Witness ==
    /\ pc["driver"] = "idle" /\ ret["driver"] = "Ok" /\ phase = "open"
    /\ Len(buffered_batches) = 2
    /\ buffered_batches[2].mem > 0
    /\ buffered_mem_size >= 2 * buffered_batches[2].mem
    /\ spills # <<>>

\* C17: memory-budget exhaustion. When try_grow fails, insert_batch returns the
\* error, the batch is not buffered, and buffered_batches, buffered_mem_size
\* and mem_used are what they were before the call.
C17_TryGrowFailure ==
    [][(nInserts' # nInserts /\ pc'["driver"] = "idle") =>
            /\ ret'["driver"] = "Err"
            /\ UNCHANGED <<buffered_batches, buffered_mem_size, mem_used, granted,
                           spills, inserted>>]_vars

\* insert_batch has failed in try_grow on an operator that holds a batch in
\* the buffer and memory
C17_Witness ==
    /\ pc["driver"] = "idle" /\ ret["driver"] = "Err" /\ phase = "open"
    /\ loc["driver"].mem_increase > 0
    /\ buffered_batches # <<>>
    /\ mem_used > 0

\* ---- where the rows of an inserted batch are ----
InBuffer(b) == \E j \in 1..Len(buffered_batches) : buffered_batches[j].id = b.id

\* number of times a row is serialized in a spill
TimesIn(sp, row) == Count(sp.spill.bytes, row)

\* the rows of batch b are all in spill number i, once each, and in no other
OnlyInSpill(b, i) ==
    \A k \in 1..Len(b.rows) :
        \A j \in 1..Len(spills) :
            TimesIn(spills[j], b.rows[k]) = (IF j = i THEN 1 ELSE 0)

InOneSpill(b) == \E i \in 1..Len(spills) : OnlyInSpill(b, i)

InNoSpill(b) ==
    \A k \in 1..Len(b.rows) : \A j \in 1..Len(spills) : TimesIn(spills[j], b.rows[k]) = 0

\* C18: row-location invariant. Before shuffle_write is called, between the
\* operations and also after a spill() that returned an error, every batch with
\* rows whose insert_batch returned Ok is either in buffered_batches or has its
\* rows serialized in exactly one spill of the list, never both, never neither.
C18_RowLocation ==
    (phase = "open" /\ \A t \in Tasks : pc[t] = "idle") =>
        \A n \in 1..Len(inserted) :
            inserted[n].rows # <<>> =>
                \/ InBuffer(inserted[n]) /\ InNoSpill(inserted[n])
                \/ ~InBuffer(inserted[n]) /\ InOneSpill(inserted[n])

\* ---- the buffer and its counter ----
\* twice the array memory sizes of the batches in the buffer
BufferedFootprint ==
    2 * SumSeq([j \in 1..Len(buffered_batches) |-> buffered_batches[j].mem])

\* C19: buffer/counter invariant. Whenever no operation holds the buffer lock,
\* a non-empty buffered_batches comes with buffered_mem_size > 0, and
\* mem_used >= buffered_mem_size = 2 * (sum of the array memory sizes of the
\* buffered batches).
C19_BufferCounter ==
    bufLock = NoTask =>
        /\ buffered_batches # <<>> => buffered_mem_size > 0
        /\ mem_used >= buffered_mem_size
        /\ buffered_mem_size = BufferedFootprint

\* ---- the final flush ----
\* shuffle_write builds its cursors
BuildsCursors(t) == pc[t] = "w_open" /\ pc'[t] = "w_merge"

RowsOfSpills(sps) == Flatten([i \in 1..Len(sps) |-> RowsOf(sps[i].spill.bytes)])

\* C20: final flush. When shuffle_write is called on a buffer that holds at
\* least one batch, the buffer has been frozen into a spill of the list by the
\* time the cursors are built: the buffer is empty then, and the spills the
\* cursors are built from hold the rows of every inserted batch.
C20_FinalFlush ==
    [][(BuildsCursors("driver") /\ loc["driver"].quiet
            /\ loc["driver"].calls = nSpillCalls) =>
            /\ buffered_batches = <<>>
            /\ SameRows(RowsOfSpills(loc'["driver"].taken), concat_batches(inserted))]_vars

\* ---- which locks an operation holds ----
InWrite(t) == pc[t] \in {"w_lock", "w_check", "w_buflock", "w_freeze", "w_open",
                         "w_merge", "w_reset"}

\* insert_batch never holds the spills lock; it holds no lock when it calls
\* try_grow (its first step) nor when it adds to mem_used, only afterwards
\* the buffer lock
InsertFootprint ==
    \A t \in Tasks :
        /\ InInsert(t) => spillsLock # t
        /\ pc[t] \in {"idle", "i_add", "i_lock"} => bufLock # t

\* C21 as stated: insert_batch takes only the buffered_batches lock, and not
\* around try_grow; shuffle_write takes only the spills lock and never the
\* buffered_batches lock.
C21_WriteTakesOnlySpills ==
    /\ InsertFootprint
    /\ \A t \in Tasks : InWrite(t) => bufLock # t

\* C21 amended: insert_batch takes only the buffered_batches lock, and not
\* around try_grow; shuffle_write takes the spills lock and, only for the
\* flush of a buffer whose counter is above 0, the buffered_batches lock
\* inside it, which it gives back before the cursors are built.
C21_LockFootprint ==
    /\ InsertFootprint
    /\ \A t \in Tasks :
            (InWrite(t) /\ bufLock = t) => (pc[t] = "w_freeze" /\ spillsLock = t)
    /\ \A t \in Tasks :
            pc[t] \in {"w_check", "w_buflock", "w_freeze", "w_open", "w_merge", "w_reset"}
                => spillsLock = t

\* shuffle_write is flushing the buffer and holds both locks
C21_Witness ==
    /\ pc["driver"] = "w_freeze"
    /\ bufLock = "driver" /\ spillsLock = "driver"
    /\ buffered_batches # <<>>

\* ---- how much spill() frees ----
\* freed >= floor(current_used / 2) between the two usize values that the
\* integers stand for: one below 0 stands for a value above 2^63, which is
\* above every value that is not below 0 and above half of any usize
AtLeastHalf(freed, current_used) ==
    IF current_used >= 0 THEN freed < 0 \/ freed >= current_used \div 2
    ELSE freed < 0

\* C22: half-freed guarantee. Whenever spill() returns Ok(freed), freed is at
\* least floor(current_used / 2) for the mem_used read at the entry of the
\* call, and the signed running total is not below 0 when it is turned into
\* the usize that is returned.
C22_HalfFreed ==
    [][\A t \in Tasks :
            SpillReturnsOk(t) =>
                /\ AtLeastHalf(loc[t].freed, loc[t].current_used)
                /\ loc[t].freed >= 0]_vars

\* ---- spill() on an empty buffer ----
\* C23: spill() on an empty buffer. When spill() comes to its freeze step
\* while buffered_batches is empty, no spill is appended: the spills list is
\* after the step what it was before.
C23_EmptyBufferSpill ==
    [][\A t \in Tasks :
            (pc[t] = "s_freeze" /\ Steps(t) /\ buffered_batches = <<>>) =>
                spills' = spills]_vars

\* ---- failed promotions ----
\* C24: fatal promotion errors abort the spill. When to_l2 fails with an error
\* other than resource-exhausted, or to_l3 fails, spill() returns the error in
\* that very step: it makes no further promotion, gives the spills lock back
\* and leaves mem_used and spilled_bytes as they are.
C24_FatalPromotion ==
    [][\A t \in Tasks :
            (PromotionStep(t) /\ loc'[t].outcome = "Err") =>
                /\ pc'[t] = "idle" /\ ret'[t] = "Err"
                /\ spillsLock' = NoTask
                /\ UNCHANGED <<mem_used, spilled_bytes, granted>>]_vars

\* a spill() has returned the error of a promotion of a spill with bytes while
\* the list still held a spill with bytes that had not reached L3
C24_Witness ==
    \E t \in Tasks :
        /\ pc[t] = "idle" /\ ret[t] = "Err" /\ loc[t].outcome = "Err"
        /\ loc[t].promoted > 0
        /\ \E i \in 1..Len(spills) : offheap_mem_size(spills[i].spill) > 0

\* ---- empty partitions ----
\* the partitions that have bytes in some spill taken for the merge
NonEmptyPartitions ==
    {p \in Partitions : \E i \in 1..Len(Taken) : SpillPart(Taken[i], p) # <<>>}

\* C25: empty partitions in the index. After shuffle_write, index[p+1] equals
\* index[p] for every partition p without rows in any spill, every entry up to
\* and including that of the smallest non-empty partition is 0, and every
\* entry after that of the largest non-empty partition is the length of the
\* data file.
C25_EmptyPartitions ==
    Written =>
        /\ Len(Index) = NumPartitions + 1
        /\ \A p \in Partitions \ NonEmptyPartitions : Index[p + 2] = Index[p + 1]
        /\ \A p \in NonEmptyPartitions :
            /\ (\A q \in NonEmptyPartitions : p <= q) =>
                    \A e \in 0..p : Index[e + 1] = 0
            /\ (\A q \in NonEmptyPartitions : q <= p) =>
                    \A e \in (p + 1)..NumPartitions : Index[e + 1] = Len(output_data)
        /\ NonEmptyPartitions = {} => \A e \in 0..NumPartitions : Index[e + 1] = 0

\* a finished merge of two spills with rows, all of them in the one partition
\* that is neither the first nor the last
C25_Witness ==
    /\ Written
    /\ Len(Taken) >= 2
    /\ NonEmptyPartitions = {1}
    /\ \A i \in 1..Len(Taken) : Taken[i].spill.bytes # <<>>

\* ---- the sub-batches of a freeze ----
\* the sub-batches (frames) of a decodable byte string, each as its rows
RECURSIVE Frames(_)
Frames(bytes) ==
    IF bytes = <<>> THEN <<>>
    ELSE <<SubSeq(bytes, 2, 1 + bytes[1][2])>>
            \o Frames(SubSeq(bytes, 2 + bytes[1][2], Len(bytes)))

CeilDiv(k, d) == (k + d - 1) \div d

SubBatchWindows(sp) ==
    LET frames == Frames(sp.spill.bytes)
        rows == RowsOf(sp.spill.bytes)
    IN  /\ \A f \in 1..Len(frames) :
            /\ Len(frames[f]) >= 1 /\ Len(frames[f]) <= BatchSize
            /\ \A a, b \in 1..Len(frames[f]) :
                    PartitionOf(frames[f][a]) = PartitionOf(frames[f][b])
        /\ \A p \in Partitions :
            LET k == Len(RowsIn(rows, p))
                n == Cardinality({f \in 1..Len(frames) : PartitionOf(frames[f][1]) = p})
            IN  n = CeilDiv(k, BatchSize)
        /\ (\A r \in 1..Len(rows) : PartitionOf(rows[r]) = 0) =>
                \A e \in 1..NumPartitions : sp.offsets[e + 1] = Len(sp.spill.bytes)

\* C26: sub-batch windows. In every spill a freeze made, each sub-batch holds
\* between 1 and batch_size rows, all of one partition; a partition with k > 0
\* rows comes as exactly ceil(k / batch_size) sub-batches (none when k = 0);
\* and when all rows are in partition 0, offsets[1..=N] all are the length of
\* the stream.
C26_SubBatchWindows ==
    \A i \in 1..Len(spills) :
        Decodable(spills[i].spill.bytes) /\ SubBatchWindows(spills[i])

\* a spill whose rows are all in partition 0 and fill one sub-batch and part
\* of a second, and a spill with sub-batches of two partitions
C26_Witness ==
    /\ \E i \in 1..Len(spills) :
        /\ \A r \in 1..Len(RowsOf(spills[i].spill.bytes)) :
                PartitionOf(RowsOf(spills[i].spill.bytes)[r]) = 0
        /\ Len(RowsOf(spills[i].spill.bytes)) = BatchSize + 1
        /\ Len(Frames(spills[i].spill.bytes)) = 2

\* ---- the same calls with other promotion outcomes ----
HasRows(sp) == RowsOf(sp.spill.bytes) # <<>>
\* what a spill gives to the merge: its bytes and offsets, whatever the tier
Content(sp) == [bytes |-> sp.spill.bytes, offsets |-> sp.offsets]
Contents(sps) == [i \in 1..Len(sps) |-> Content(sps[i])]

\* a loser tree knows its leaves by position and by the comparator only, so
\* among leaves that tie it selects by position
TieRules == {"first", "last"}
Select(leaves, rule) ==
    CHOOSE m \in leaves :
        \A k \in leaves : IF rule = "first" THEN m <= k ELSE m >= k

RECURSIVE MergeBy(_, _)
MergeBy(st, rule) ==
    IF MergeOver(st.tree) THEN st
    ELSE MergeBy(MergeStep(st, Select(peek_mut(st.tree), rule)), rule)

\* the two files shuffle_write makes of a spills list under a tie rule
FilesBy(sps, rule) ==
    LET st == MergeBy([tree |-> BuildCursors(sps), offsets |-> <<0>>,
                       cur_partition_id |-> 0, out |-> <<>>], rule)
    IN  [data |-> st.out, index |-> IndexBytes(st.offsets, Len(st.out))]

\* the promotion of a popped spill when every to_l2 of an L1 spill succeeds
\* ("L2") or every one is out of resources and to_l3 succeeds ("L3")
PromoteAs(sp, policy) ==
    IF sp.tier = "L1" /\ policy = "L3" THEN to_l3(sp) ELSE to_l2(sp)

\* the promotion loop of one spill() call under a policy; ok is FALSE when
\* the loop comes to pop a promoted spill of size 0, which it then pops for
\* ever
RECURSIVE ReplayLoop(_, _, _, _)
ReplayLoop(list, freed, current_used, policy) ==
    IF ~MustPromote([freed |-> freed, current_used |-> current_used])
    THEN [list |-> list, freed |-> freed, ok |-> TRUE]
    ELSE LET pop_index == PopIndex(list)
             popped == list[pop_index + 1]
             size == offheap_mem_size(popped.spill)
         IN  IF size = 0 /\ popped.spill.tier # "L1"
             THEN [list |-> list, freed |-> freed, ok |-> FALSE]
             ELSE ReplayLoop(Append(RemoveAt(list, pop_index),
                                    [popped EXCEPT !.spill = PromoteAs(@, policy)]),
                             freed + size, current_used, policy)

\* the spill() calls of a history made one after the other under a policy:
\* the spills list and mem_used they leave
RECURSIVE ReplayCalls(_, _, _)
ReplayCalls(history, st, policy) ==
    IF history = <<>> \/ ~st.ok THEN st
    ELSE LET call == Head(history)
             current_used == st.mem_used + call.size
             r == ReplayLoop(Append(st.list, call.sp),
                             call.size - offheap_mem_size(call.sp.spill),
                             current_used, policy)
         IN  ReplayCalls(Tail(history),
                         [list |-> r.list, mem_used |-> current_used - r.freed,
                          ok |-> r.ok],
                         policy)

\* the spill() calls that were made before shuffle_write was called, and the
\* spill of shuffle_write's own freeze, if it made one
CallsBeforeWrite == SubSeq(loc["mm"].history, 1, loc["driver"].calls)
FinalFlush ==
    IF Len(Taken) > loc["driver"].calls THEN <<Taken[Len(Taken)]>> ELSE <<>>

\* the list shuffle_write merges in the run of the same calls under a policy
Replayed(policy) ==
    LET st == ReplayCalls(CallsBeforeWrite, [list |-> <<>>, mem_used |-> 0, ok |-> TRUE],
                          policy)
    IN  [st EXCEPT !.list = @ \o FinalFlush]

NoTier(sps, tier) == \A i \in 1..Len(sps) : sps[i].spill.tier # tier
\* the run whose promotions all went one way, as this run's tiers show it
Other(policy) == IF policy = "L2" THEN "L3" ELSE "L2"
RunIs(policy) == Written /\ NoTier(Taken, Other(policy))

\* The replay is the action-level run: a finished run whose promotions all
\* went one way merged the list the replay of its calls under that policy gives;
\* under either policy the replay hands the same spills (bytes and offsets) to
\* the merge as this run did, maybe in another order, so that the index file is
\* this run's and every partition range of this run's data file is made of
\* that partition's bytes of the replayed spills.
ReplayIsFaithful ==
    Written =>
        \A policy \in {"L2", "L3"} :
            LET run == Replayed(policy)
            IN  /\ NoTier(Taken, Other(policy)) => run.ok /\ run.list = Taken
                /\ run.ok =>
                    /\ \E order \in Orders(Len(Taken)) :
                            /\ Len(run.list) = Len(Taken)
                            /\ Contents(run.list)
                                    = [i \in 1..Len(Taken) |-> Content(Taken[order[i]])]
                    /\ \A rule \in TieRules : FilesBy(run.list, rule).index = output_index
                    /\ Len(Index) = NumPartitions + 1
                    /\ \A p \in Partitions :
                        \E order \in Orders(Len(run.list)) :
                            RangeOf(output_data, Index, p) = PartsInOrder(run.list, order, p)

\* C27: tier transparency. The files that the merge writes from the list of a
\* run whose L2 promotions all succeeded are those it writes from the list of
\* the run of the same insert_batch and spill() calls whose promotions all fell
\* back to L3, and the other way round, under some tie rule of the tree.
C27_TierTransparency ==
    \A policy \in {"L2", "L3"} :
        (RunIs(policy) /\ Replayed(Other(policy)).ok) =>
            \E rule \in TieRules :
                FilesBy(Taken, rule) = FilesBy(Replayed(Other(policy)).list, rule)

\* ---- the merge loop ----
Merging == pc["driver"] = "w_merge"
Tree == loc["driver"].tree
RowsWritten(p) == Len(RowsIn(RowsOf(output_data), p))
RowsHeld(p) == Len(RowsIn(RowsOfSpills(Taken), p))

\* C28: merge order. While the merge loop runs, no unfinished cursor stands
\* at a partition before the one last copied (each iteration selected the
\* smallest cur of the unfinished cursors); the partition ids of the rows in
\* the data file never decrease; and once a row of a partition is in the data
\* file, all rows that any spill holds for any smaller partition are in it.
C28_MergeOrder ==
    /\ Merging =>
        \A m \in 1..Len(Tree) :
            Unfinished(Tree[m]) => Tree[m].cur >= loc["driver"].cur_partition_id
    /\ (Merging \/ Written) =>
        /\ Decodable(output_data)
        /\ \A a, b \in 1..Len(RowsOf(output_data)) :
            a < b => PartitionOf(RowsOf(output_data)[a]) <= PartitionOf(RowsOf(output_data)[b])
        /\ \A p, q \in Partitions :
            (p < q /\ RowsWritten(q) > 0) => RowsWritten(p) = RowsHeld(p)

\* the merge loop at work on two spills that both hold rows of one partition,
\* with these rows and a row of a later partition copied and a cursor not yet
\* finished
C28_Witness ==
    /\ Merging
    /\ \E p, q \in Partitions :
        /\ p < q /\ RowsWritten(q) > 0
        /\ \E i, j \in 1..Len(Taken) :
            i # j /\ SpillPart(Taken[i], p) # <<>> /\ SpillPart(Taken[j], p) # <<>>
    /\ \E m \in 1..Len(Tree) : Unfinished(Tree[m])

\* the merge loop has made no iteration yet
LoopNotEntered == Merging /\ output_data = <<>>

\* C29: finished cursors sort last. The leaves the loser tree is built of are
\* all unfinished, one for every spill with a non-empty partition; while an
\* unfinished cursor exists no finished one is selected; and when the merge
\* loop is left every cursor is finished.
C29_FinishedLast ==
    /\ LoopNotEntered =>
        /\ \A m \in 1..Len(Tree) : Unfinished(Tree[m])
        /\ Len(Tree) = Cardinality({i \in 1..Len(Taken) : Taken[i].spill.bytes # <<>>})
    /\ Merging =>
        ((\E k \in 1..Len(Tree) : Unfinished(Tree[k]))
            => \A m \in peek_mut(Tree) : Unfinished(Tree[m]))
    /\ ((Merging /\ MergeOver(Tree)) \/ Written) =>
        \A m \in 1..Len(Tree) : finished(Tree[m])

\* the merge loop is over with a tree of two cursors, and one spill with no
\* rows was given no cursor
C29_Witness ==
    /\ Merging /\ MergeOver(Tree)
    /\ Len(Tree) >= 2
    /\ Len(Taken) > Len(Tree)
    /\ output_data # <<>>

\* ---- what a promotion changes ----
\* L1 is the highest tier, L3 the lowest
TierDepth(tier) == CASE tier = "L1" -> 1 [] tier = "L2" -> 2 [] tier = "L3" -> 3

\* the spill at position i is taken out and put back last with the same
\* offsets and bytes, at its tier or a lower one
PromotedInPlace(i) ==
    /\ Len(spills') = Len(spills)
    /\ SubSeq(spills', 1, Len(spills) - 1) = RemoveAt(spills, i - 1)
    /\ spills'[Len(spills)].offsets = spills[i].offsets
    /\ spills'[Len(spills)].spill.bytes = spills[i].spill.bytes
    /\ TierDepth(spills'[Len(spills)].spill.tier) >= TierDepth(spills[i].spill.tier)

\* C30: promotion changes only the tier. A promotion that succeeds puts the
\* popped spill back with the offsets table and the bytes it had, at the tier
\* it had or a lower one (an L3 spill stays at L3), and leaves the other spills
\* as they were; a step that is not a promotion changes no spill that stays in
\* the list.
C30_PromotionFrame ==
    [][/\ \A t \in Tasks :
            (PromotionStep(t) /\ pc'[t] = "s_loop") =>
                \E i \in 1..Len(spills) : PromotedInPlace(i)
       /\ (\A t \in Tasks : ~PromotionStep(t)) =>
            \/ spills' = <<>>
            \/ /\ Len(spills') >= Len(spills)
               /\ SubSeq(spills', 1, Len(spills)) = spills]_vars

\* a promotion loop that has picked a spill already at L3 and called to_l2 on
\* it, with only L3 spills in the list, one of them with bytes
C30_Witness ==
    \E t \in Tasks :
        /\ pc[t] = "s_loop" /\ loc[t].outcome = "L2"
        /\ \A i \in 1..Len(spills) : spills[i].spill.tier = "L3"
        /\ \E i \in 1..Len(spills) : spills[i].spill.bytes # <<>>

\* ---- the end of spill() ----
\* the promotion loop has to go on although the spill it picks is promoted
\* already and of size 0: the pick changes neither freed nor the list
LoopStuck(t) ==
    /\ pc[t] = "s_loop" /\ MustPromote(loc[t])
    /\ PopSize = 0 /\ PopSpill.spill.tier # "L1"

\* C31: spill() terminates. Whenever the promotion loop of a spill() call has
\* to make another promotion, the promotion brings the call nearer to its
\* return: it adds to freed or moves a spill out of L1, so that the call makes
\* a bounded number of promotions and returns.
C31_SpillTerminates == \A t \in Tasks : ~LoopStuck(t)

\* ---- the sort key ----
\* every PI of the key's width: partition_id and hash are both HashBits wide
AllPI == {PI(p, h, 0) : p \in 0..(HashRange - 1), h \in 0..(HashRange - 1)}
LexLess(a, b) ==
    \/ a.partition_id < b.partition_id
    \/ a.partition_id = b.partition_id /\ a.hash < b.hash

\* a freeze is about to sort the pi_vec of the buffered batches
BeforeSort(t) == pc[t] \in {"s_freeze", "w_freeze"}
UnsortedPiVec == BuildPiVec(concat_batches(buffered_batches))

\* C32: sort key order. The radix key orders any two PI exactly as the
\* lexicographic order on (partition_id, hash) does, whatever their index;
\* hence every outcome of the sort of a freeze is non-decreasing in
\* partition_id, holds every row once, and has the rows of a partition next
\* to each other.
C32_SortKeyOrder ==
    \A t \in Tasks :
        BeforeSort(t) =>
            /\ \A a, b \in AllPI :
                /\ key(a) < key(b) <=> LexLess(a, b)
                /\ key(a) = key(b) <=> (a.partition_id = b.partition_id /\ a.hash = b.hash)
            /\ \A pi_vec \in voracious_sort(UnsortedPiVec) :
                /\ Len(pi_vec) = Len(UnsortedPiVec)
                /\ {pi_vec[i].index : i \in 1..Len(pi_vec)} = 0..(Len(pi_vec) - 1)
                /\ \A i, j \in 1..Len(pi_vec) :
                    i < j => ~LexLess(pi_vec[j], pi_vec[i])
                /\ \A i, j, k \in 1..Len(pi_vec) :
                    (i < j /\ j < k /\ pi_vec[i].partition_id = pi_vec[k].partition_id)
                        => pi_vec[j].partition_id = pi_vec[i].partition_id

\* a freeze about to sort rows of which one has the smaller hash and the
\* larger partition id, so that the sort has to move it behind the other
C32_Witness ==
    \E t \in Tasks :
        /\ BeforeSort(t)
        /\ \E i, j \in 1..Len(UnsortedPiVec) :
            /\ i < j
            /\ UnsortedPiVec[i].hash < UnsortedPiVec[j].hash
            /\ UnsortedPiVec[i].partition_id > UnsortedPiVec[j].partition_id
        /\ \E i, j \in 1..Len(UnsortedPiVec) :
            i # j /\ key(UnsortedPiVec[i]) = key(UnsortedPiVec[j])

Selectable == {m \in peek_mut(Tree) : Unfinished(Tree[m])}
\* the loop's state after the index-padding loop has run for leaf m
Padded(m) == PadOffsets(MergeState("driver"), Tree[m].cur)

\* C34: the padded index is the selected cursor's partition. At every
\* iteration of the merge loop, once the padding loop has run,
\* cur_partition_id equals min_spill.cur, both cur_partition_id and
\* cur_partition_id + 1 are valid indices of the cursor's offsets, and the
\* length copied is that of the cursor's own current partition.
C34_PaddedToMin ==
    Merging => \A m \in Selectable :
        /\ loc["driver"].cur_partition_id <= Tree[m].cur
        /\ Padded(m).cur_partition_id = Tree[m].cur
        /\ Padded(m).cur_partition_id + 1 < Len(Tree[m].offsets)
        /\ Len(Padded(m).offsets) = Tree[m].cur + 1
        /\ CopyLength(Tree[m], Padded(m).cur_partition_id)
                = Tree[m].offsets[Tree[m].cur + 2] - Tree[m].offsets[Tree[m].cur + 1]

\* the loop has copied a partition and now selects a cursor that stands two
\* partitions further, at the last partition
C34_Witness ==
    /\ Merging /\ output_data # <<>>
    /\ \E m \in Selectable :
        /\ Tree[m].cur = NumPartitions - 1
        /\ loc["driver"].cur_partition_id + 2 = Tree[m].cur
        /\ Len(Padded(m).offsets) > Len(loc["driver"].offsets) + 1
\* ---- the cursors' readers ----
\* the bytes of partition p (counted from 0) of the spill a cursor reads
OwnRange(c, p) == SubSeq(c.reader.data, c.offsets[p + 1] + 1, c.offsets[p + 2])

\* C35: reader position tracks the offsets table. During the merge the bytes
\* consumed from a cursor's reader number offsets[cur], for every cursor of the
\* tree; the iteration that selects a cursor appends exactly the spill's bytes
\* offsets[cur]..offsets[cur+1] to the output; and a finished cursor's reader
\* has been consumed to offsets[N].
C35_ReaderAtOffset ==
    Merging =>
        /\ \A m \in 1..Len(Tree) :
            /\ Unfinished(Tree[m]) => Tree[m].reader.pos = Tree[m].offsets[Tree[m].cur + 1]
            /\ finished(Tree[m]) =>
                /\ Tree[m].cur = NumPartitions
                /\ Tree[m].reader.pos = Tree[m].offsets[NumPartitions + 1]
        /\ \A m \in Selectable :
            LET st == MergeStep(MergeState("driver"), m)
            IN  /\ st.out = output_data \o OwnRange(Tree[m], Tree[m].cur)
                /\ Len(st.out) - Len(output_data)
                        = Tree[m].offsets[Tree[m].cur + 2] - Tree[m].offsets[Tree[m].cur + 1]
                /\ st.tree[m].reader.pos = Tree[m].offsets[Tree[m].cur + 2]

\* a cursor that was read before is selected again for a later partition,
\* next to a cursor that is finished
C35_Witness ==
    /\ Merging
    /\ \E m \in Selectable :
        /\ Tree[m].reader.pos > 0
        /\ OwnRange(Tree[m], Tree[m].cur) # <<>>
    /\ \E m \in 1..Len(Tree) : finished(Tree[m]) /\ Tree[m].reader.pos > 0
\* ---- the memory account ----
\* spill() is about to subtract freed and return it
AboutToSub(t) == pc[t] = "s_loop" /\ ~MustPromote(loc[t])

\* the loop of this call has just pushed back a spill it moved to L2 and is
\* about to pick the same spill, whose size it has added to freed, once more
PicksAgain(t) ==
    /\ pc[t] = "s_loop" /\ MustPromote(loc[t])
    /\ loc[t].outcome = "L2"
    /\ PopIndex(spills) + 1 = Len(spills)
    /\ PopSize > 0

\* C36: no underflow of mem_used. The value spill() returns never exceeds
\* metrics.mem_used at the moment it is subtracted, so that mem_used never
\* goes below zero (never wraps around); and within one call of spill() no
\* spill has its size added to freed a second time.
C36_NoUnderflow ==
    /\ \A t \in Tasks : AboutToSub(t) => loc[t].freed <= mem_used
    /\ mem_used >= 0
    /\ \A t \in Tasks : ~PicksAgain(t)

\* the second part of C36 alone
NoSecondCredit == \A t \in Tasks : ~PicksAgain(t)
\* ---- what the freeze is credited with ----
\* let mem_increase = input.get_array_memory_size() * 2
MemIncreaseOf(batch) == batch.mem * 2
BufferedIncrease == SumSeq([i \in 1..Len(buffered_batches) |-> MemIncreaseOf(buffered_batches[i])])
\* spill() holds the buffer lock and is about to take the batches out; freed
\* holds what it loaded from buffered_mem_size
AboutToFreeze(t) == t \in Spillers /\ pc[t] = "s_freeze"

\* C37: the freeze is credited with what it removes. In every interleaving of
\* insert_batch with spill(), the amount that spill() has added to freed for
\* the buffer equals the sum of mem_increase of the batches that its freeze
\* takes out of the buffer; no batch is frozen without its mem_increase
\* being credited.
C37_FreezeCredit ==
    \A t \in Tasks : AboutToFreeze(t) => loc[t].freed = BufferedIncrease
\* ---- the accounting identity ----
\* the byte sizes of the spills that are still at tier L1
L1Bytes == SumSeq([i \in 1..Len(spills) |->
                IF spills[i].spill.tier = "L1" THEN Len(spills[i].spill.bytes) ELSE 0])
\* no operation is in progress, none has failed, shuffle_write has not run
AtRestOpen == (\A t \in Tasks : pc[t] = "idle") /\ phase = "open" /\ ~failed

\* C38: accounting identity. In every state where no operation is in progress
\* and shuffle_write has not run, after successful insert_batch and spill()
\* calls, mem_used equals buffered_mem_size plus the byte sizes of the spills
\* still at tier L1.
C38_AccountingIdentity ==
    AtRestOpen => mem_used = buffered_mem_size + L1Bytes
\* ---- spill() returning an error ----
\* spill() returns an error from the step it stands at
SpillReturnsErr(t, at) == pc[t] = at /\ pc'[t] = "idle" /\ ret'[t] = "Err"
\* mem_used is what it was when the call started; the buffer is empty and
\* its counter is 0
ErrorLeaves(t) ==
    /\ mem_used' = loc[t].current_used
    /\ buffered_batches' = <<>>
    /\ buffered_mem_size' = 0

\* C39: spill() returning an error. When spill() returns an error, mem_used
\* has not been decreased by the call, the buffer has been frozen and
\* buffered_mem_size has been reset to 0.
C39_SpillError ==
    [][\A t \in Tasks :
            (SpillReturnsErr(t, "s_freeze") \/ SpillReturnsErr(t, "s_loop"))
                => ErrorLeaves(t)]_vars

\* the same for the errors of the promotion loop alone
PromotionErrorLeaves ==
    [][\A t \in Tasks : SpillReturnsErr(t, "s_loop") => ErrorLeaves(t)]_vars

\* every error return of spill() leaves mem_used as the call found it
ErrorKeepsMemUsed ==
    [][\A t \in Tasks :
            (SpillReturnsErr(t, "s_freeze") \/ SpillReturnsErr(t, "s_loop"))
                => mem_used' = loc[t].current_used]_vars
\* ---- the merge loop ends ----
\* the sum of cur over the cursors of a tree
CurSum(tree) == SumSeq([m \in 1..Len(tree) |-> tree[m].cur])
\* the merge loop makes an iteration
Iterates == Merging /\ loc'["driver"].iterations = loc["driver"].iterations + 1
\* the cursors of the tree whose cur the step changes
Moved == {m \in 1..Len(Tree) : loc'["driver"].tree[m].cur # Tree[m].cur}

\* every iteration selects an unfinished cursor and strictly increases its
\* cur, leaving the other cursors where they are; the iterations made number
\* at most (number of cursors) x N; none is made when no cursor is unfinished
MergeBounded ==
    /\ [][Iterates =>
            /\ \E m \in Selectable : Moved = {m} /\ loc'["driver"].tree[m].cur > Tree[m].cur
            /\ CurSum(loc'["driver"].tree) > CurSum(Tree)]_vars
    /\ [](Merging => /\ loc["driver"].iterations <= Len(Tree) * NumPartitions
                     /\ loc["driver"].iterations <= CurSum(Tree)
                     /\ CurSum(Tree) <= Len(Tree) * NumPartitions)
    /\ []((Merging /\ \A m \in 1..Len(Tree) : finished(Tree[m])) => ~ENABLED WriteMerge("driver"))
    /\ [](pc["driver"] = "w_reset" /\ Taken = <<>> => loc["driver"].iterations = 0)

\* C40: the merge loop terminates. Every iteration strictly increases the
\* selected cursor's cur, so that the loop makes at most (number of cursors)
\* x N iterations; it makes none when no cursor is unfinished; and once
\* shuffle_write has entered the loop it leaves it.
C40_MergeTerminates == MergeBounded /\ (Merging ~> ~Merging)

\* the loop has made two iterations over two cursors and every cursor is
\* finished
C40_Witness ==
    /\ Merging
    /\ Len(Tree) = 2 /\ loc["driver"].iterations = 2
    /\ \A m \in 1..Len(Tree) : finished(Tree[m])
====
